---- MODULE Spec2Model ----
(***************************************************************************)
(* The promptloop background worker (Go, package main): the dispatch loop, *)
(* the claim query over the jobs table, the execute/deliver/finalize cycle *)
(* and the schedule calculator, as a state machine over a shared store.    *)
(*                                                                         *)
(* Time is counted in units of 30 seconds, the largest unit that divides   *)
(* the cycle deadline (90 s), the staleness window (10 min), the fallback  *)
(* delay (10 min) and an HH:mm minute.  Instant 0 is 00:00 of a Sunday.    *)
(***************************************************************************)
EXTENDS Integers, Sequences, FiniteSets, TLC

(* ---------------------------- bounds ----------------------------------- *)
NumWorkers == 2
NumJobs == 2
MaxTime == 3
MaxLife == 22
MaxRuns == 2
MaxAttempt == 40

(* ----------------------- program constants ----------------------------- *)
UnitSeconds == 30
UnitsPerMinute == 60 \div UnitSeconds
CycleTimeout == 90 \div UnitSeconds
StaleWindow == 10 * UnitsPerMinute
(* A fallback of one minute. *)
FallbackDelay_OneMinute == UnitsPerMinute
FallbackDelay == 10 * UnitsPerMinute
FailThreshold == 10
maxLLMRetries == 2
(* a delivery budget equal to the execution budget *)
maxDeliveryRetries_AsExecution == maxLLMRetries
maxDeliveryRetries == 3
DayUnits == 24 * 60 * UnitsPerMinute

Workers == 1..NumWorkers
JobIds == 1..NumJobs
NoJob == 0

(* sql.NullInt32 / sql.NullString / a nullable timestamptz column *)
NullInt == [Valid |-> FALSE, V |-> 0]
SomeInt(n) == [Valid |-> TRUE, V |-> n]
NullStr == [Valid |-> FALSE, V |-> "" ]
SomeStr(s) == [Valid |-> TRUE, V |-> s]
NullTime == [Valid |-> FALSE, V |-> 0]
SomeTime(t) == [Valid |-> TRUE, V |-> t]

(* ------------------------- schedule calculator ------------------------- *)
(* A string is a sequence of one-character strings. *)
DigitVal(c) ==
  CASE c = "0" -> 0 [] c = "1" -> 1 [] c = "2" -> 2 [] c = "3" -> 3
    [] c = "4" -> 4 [] c = "5" -> 5 [] c = "6" -> 6 [] c = "7" -> 7
    [] c = "8" -> 8 [] c = "9" -> 9 [] OTHER -> 0 - 1

RECURSIVE SplitFrom(_, _, _)
SplitFrom(raw, i, cur) ==
  IF i > Len(raw) THEN <<cur>>
  ELSE IF raw[i] = ":" THEN <<cur>> \o SplitFrom(raw, i + 1, <<>>)
  ELSE SplitFrom(raw, i + 1, Append(cur, raw[i]))

(* strings.Split(raw, ":") *)
Split(raw) == SplitFrom(raw, 1, <<>>)

RECURSIVE DigitsVal(_, _, _)
DigitsVal(s, i, acc) ==
  IF i > Len(s) THEN acc ELSE DigitsVal(s, i + 1, acc * 10 + DigitVal(s[i]))

(* strconv.Atoi: an optional sign, then one or more decimal digits *)
Atoi(s) ==
  LET signed == Len(s) > 0 /\ s[1] \in {"+", "-"}
      body == IF signed THEN SubSeq(s, 2, Len(s)) ELSE s
      ok == Len(body) > 0 /\ \A i \in 1..Len(body) : DigitVal(body[i]) >= 0
      mag == IF ok THEN DigitsVal(body, 1, 0) ELSE 0
  IN [ok |-> ok, v |-> IF signed /\ s[1] = "-" THEN 0 - mag ELSE mag]

parseHHMM(raw) ==
  LET parts == Split(raw)
  IN IF Len(parts) # 2 THEN [ok |-> FALSE, h |-> 0, m |-> 0]
     ELSE LET hour == Atoi(parts[1])
              minute == Atoi(parts[2])
          IN IF ~hour.ok \/ ~minute.ok THEN [ok |-> FALSE, h |-> 0, m |-> 0]
             ELSE IF hour.v < 0 \/ hour.v > 23 \/ minute.v < 0 \/ minute.v > 59
                  THEN [ok |-> FALSE, h |-> 0, m |-> 0]
                  ELSE [ok |-> TRUE, h |-> hour.v, m |-> minute.v]

(* now.Weekday(), and midnight of now's day: time.Date(y, m, d, 0, 0, ...) *)
DayStart(t) == (t \div DayUnits) * DayUnits
Weekday(t) == (t \div DayUnits) % 7

(* time.Date(now.Year(), now.Month(), now.Day(), h, m, 0, 0, loc) *)
TodayAt(t, h, m) == DayStart(t) + (h * 60 + m) * UnitsPerMinute

(* time.Time{}: January 1 of year 1, before every instant of the model *)
ZeroTime == 0 - 1000 * DayUnits

(* cron.ParseStandard over the expressions the rows use: the every-minute   *)
(* schedule and February 30, whose five fields are all in range, are        *)
(* accepted; anything else here is a rejected expression.                   *)
CronEveryMinute == "* * * * *"
CronFeb30 == "0 0 30 2 *"
CronParseOk(expr) == expr \in {CronEveryMinute, CronFeb30}
(* sched.Next(now): for "* * * * *" the next whole minute strictly after    *)
(* now; for a schedule no day within five years satisfies, the zero time    *)
CronNext(expr, t) ==
  IF expr = CronFeb30 THEN ZeroTime
  ELSE ((t \div UnitsPerMinute) + 1) * UnitsPerMinute

(* Go's %: the remainder takes the sign of the dividend *)
GoMod(a, b) == IF a >= 0 THEN a % b ELSE 0 - ((0 - a) % b)

(* case "daily" with "next.Before(now)": a next run equal to now is kept *)
caseDaily_KeepsTie(job, t) ==
  LET p == parseHHMM(job.schedule_time)
      next == TodayAt(t, p.h, p.m)
  IN IF ~p.ok THEN [ok |-> FALSE, at |-> ZeroTime]
     ELSE IF next < t THEN [ok |-> TRUE, at |-> next + DayUnits]
     ELSE [ok |-> TRUE, at |-> next]

(* case "daily" of computeNextRun *)
caseDaily(job, t) ==
  LET p == parseHHMM(job.schedule_time)
      next == TodayAt(t, p.h, p.m)
  IN IF ~p.ok THEN [ok |-> FALSE, at |-> ZeroTime]
     ELSE IF ~(next > t) THEN [ok |-> TRUE, at |-> next + DayUnits]
     ELSE [ok |-> TRUE, at |-> next]

(* case "weekly" that adds no week when today's time has passed *)
caseWeekly_NoRoll(job, t) ==
  LET p == parseHHMM(job.schedule_time)
      target == job.schedule_day_of_week.V
      delta == GoMod(target - Weekday(t) + 7, 7)
      next == TodayAt(t, p.h, p.m) + delta * DayUnits
  IN IF ~p.ok THEN [ok |-> FALSE, at |-> ZeroTime]
     ELSE IF ~job.schedule_day_of_week.Valid THEN [ok |-> FALSE, at |-> ZeroTime]
     ELSE [ok |-> TRUE, at |-> next]

(* case "weekly" of computeNextRun *)
caseWeekly(job, t) ==
  LET p == parseHHMM(job.schedule_time)
      target == job.schedule_day_of_week.V
      delta == GoMod(target - Weekday(t) + 7, 7)
      next == TodayAt(t, p.h, p.m) + delta * DayUnits
  IN IF ~p.ok THEN [ok |-> FALSE, at |-> ZeroTime]
     ELSE IF ~job.schedule_day_of_week.Valid THEN [ok |-> FALSE, at |-> ZeroTime]
     ELSE IF ~(next > t) THEN [ok |-> TRUE, at |-> next + 7 * DayUnits]
     ELSE [ok |-> TRUE, at |-> next]

(* case "cron" of computeNextRun *)
caseCron(job, t) ==
  IF ~job.schedule_cron.Valid THEN [ok |-> FALSE, at |-> ZeroTime]
  ELSE IF ~CronParseOk(job.schedule_cron.V) THEN [ok |-> FALSE, at |-> ZeroTime]
  ELSE [ok |-> TRUE, at |-> CronNext(job.schedule_cron.V, t)]

computeNextRun(job, t) ==
  CASE job.schedule_type = "daily" -> caseDaily(job, t)
    [] job.schedule_type = "weekly" -> caseWeekly(job, t)
    [] job.schedule_type = "cron" -> caseCron(job, t)
    [] OTHER -> [ok |-> FALSE, at |-> ZeroTime]

(* ------------------------------ the store ------------------------------ *)
VARIABLES
  now,      \* the clock shared by the store's now() and the workers' time.Now()
  jobs,     \* committed rows of the jobs table, by job id
  hist,     \* committed rows of run_histories, by job id, in insertion order
  updates,  \* per job, how many finalize updates of its row have been committed
  pc,       \* per worker, its position in main / processOnce
  tx,       \* per worker, its open transaction: claimed job, uncommitted writes
  run,      \* per worker, processOnce's locals: runErr, nextRun
  snap      \* per worker, the committed state of its job as its claim found it

vars == <<now, jobs, hist, updates, pc, tx, run, snap>>

T0001 == <<"0", "0", ":", "0", "1">>

Row(en, nra, lk, fc, ty, tm, dow, cr) ==
  [enabled |-> en, next_run_at |-> nra, locked_at |-> lk, fail_count |-> fc,
   schedule_type |-> ty, schedule_time |-> tm, schedule_day_of_week |-> dow,
   schedule_cron |-> cr]

(* Rows the editor or an operator can have put in the table: a daily job   *)
(* never run, a recurring job one failure from the threshold whose lock    *)
(* marker is 11 minutes older than instant 0, and a job with a rejected    *)
(* cron expression, due the longest, whose marker is 9 minutes older.      *)
Seeds ==
  << Row(TRUE, 0, NullTime, 0, "daily", T0001, NullInt, NullStr),
     Row(TRUE, 0, SomeTime(0 - 11 * UnitsPerMinute), 9, "cron", T0001, NullInt,
         SomeStr(CronEveryMinute)),
     Row(TRUE, 0 - 1, SomeTime(0 - 9 * UnitsPerMinute), 8, "cron", T0001, NullInt,
         SomeStr("bad")) >>

(* Job ids are opaque: a table holds different seed rows, up to a renaming *)
(* of its ids.                                                             *)
SeedTables ==
  {[j \in JobIds |-> Seeds[f[j]]] :
     f \in {g \in [JobIds -> 1..Len(Seeds)] :
              \A i, k \in JobIds : i < k => g[i] < g[k]}}

NoTx == [job |-> NoJob, row |-> Row(FALSE, 0, NullTime, 0, "", <<>>, NullInt, NullStr),
         hist |-> <<>>, upd |-> 0]
NoRun == [status |-> "", next |-> 0]
NoSnap == [row |-> NoTx.row, nhist |-> 0, at |-> 0]

(* The claim takes no row lock. *)
HeldByOthers_NoRowLock(w) == {}

(* Rows another open transaction holds a row lock on. *)
HeldByOthers(w) == {tx[v].job : v \in Workers \ {w}} \ {NoJob}
Holders(j) == {w \in Workers : tx[w].job = j}

(* The WHERE clause without "enabled = true". *)
WhereClause_AnyEnabled(row, t) ==
  /\ row.next_run_at <= t
  /\ (~row.locked_at.Valid \/ row.locked_at.V < t - StaleWindow)

(* The WHERE clause with "locked_at <= now() - interval". *)
WhereClause_StaleAtWindow(row, t) ==
  /\ row.enabled = TRUE
  /\ row.next_run_at <= t
  /\ (~row.locked_at.Valid \/ row.locked_at.V <= t - StaleWindow)

(* lockQuery's WHERE clause *)
WhereClause(row, t) ==
  /\ row.enabled = TRUE
  /\ row.next_run_at <= t
  /\ (~row.locked_at.Valid \/ row.locked_at.V < t - StaleWindow)

(* The candidate CTE without SKIP LOCKED, rows in flight elsewhere included. *)
lockQuery_NoSkipLocked(rows, t, held) ==
  LET cand == {j \in DOMAIN rows : WhereClause(rows[j], t)}
  IN {j \in cand : \A k \in cand : rows[j].next_run_at <= rows[k].next_run_at}

(* The candidate CTE without ORDER BY. *)
lockQuery_NoOrderBy(rows, t, held) ==
  {j \in (DOMAIN rows) \ held : WhereClause(rows[j], t)}

(* lockQuery's candidate CTE: ORDER BY next_run_at LIMIT 1 FOR UPDATE SKIP   *)
(* LOCKED.  The set of ids the statement may return; empty is sql.ErrNoRows. *)
lockQuery(rows, t, held) ==
  LET cand == {j \in (DOMAIN rows) \ held : WhereClause(rows[j], t)}
  IN {j \in cand : \A k \in cand : rows[j].next_run_at <= rows[k].next_run_at}

(* lockQuery's UPDATE jobs SET locked_at = now() *)
lockRow(row, t) == [row EXCEPT !.locked_at = SomeTime(t)]

(* Texts the worker sends or records (outputs, messages, errors) are TLA+  *)
(* strings: Len counts their characters, SubSeq(s, i, i) is character i.   *)
IsSpace(c) == c \in {" ", "\t", "\n", "\r"}

(* s, n times over *)
RECURSIVE Rep(_, _)
Rep(s, n) ==
  IF n = 0 THEN ""
  ELSE IF n % 2 = 1 THEN s \o Rep(s \o s, n \div 2)
  ELSE Rep(s \o s, n \div 2)

(* s without its leading " " characters, taken off b at a time, then b/2 *)
RECURSIVE SkipSpaces(_, _)
SkipSpaces(s, b) ==
  IF b = 0 THEN s
  ELSE IF Len(s) >= b /\ SubSeq(s, 1, b) = Rep(" ", b)
       THEN SkipSpaces(SubSeq(s, b + 1, Len(s)), b)
       ELSE SkipSpaces(s, b \div 2)

(* s from its first character that is no white space on *)
TrimLeft(s) ==
  IF s = "" \/ ~IsSpace(SubSeq(s, 1, 1)) THEN s
  ELSE LET t == SkipSpaces(s, 256)
           first == CHOOSE i \in 1..(Len(t) + 1) :
                      /\ i = Len(t) + 1 \/ ~IsSpace(SubSeq(t, i, i))
                      /\ \A k \in 1..(i - 1) : IsSpace(SubSeq(t, k, k))
       IN SubSeq(t, first, Len(t))

(* s up to its last character that is no white space *)
TrimRight(s) ==
  IF s = "" \/ ~IsSpace(SubSeq(s, Len(s), Len(s))) THEN s
  ELSE LET cut == CHOOSE d \in 0..Len(s) :
                    /\ d = Len(s) \/ ~IsSpace(SubSeq(s, Len(s) - d, Len(s) - d))
                    /\ \A k \in (Len(s) - d + 1)..Len(s) : IsSpace(SubSeq(s, k, k))
       IN SubSeq(s, 1, Len(s) - cut)

(* strings.TrimSpace *)
TrimSpace(s) == TrimRight(TrimLeft(s))

nullIfEmpty(value) == IF TrimSpace(value) = "" THEN NullStr ELSE SomeStr(value)

truncate(value, max) == IF Len(value) <= max THEN value ELSE SubSeq(value, 1, max)

(* INSERT INTO run_histories (..., status, output_preview, error_message) *)
insertHistory(pending, status, outputPreview, errorMessage) ==
  Append(pending, [status |-> status,
                   output_preview |-> nullIfEmpty(outputPreview),
                   error_message |-> nullIfEmpty(errorMessage)])

(* updateSuccess without "locked_at = NULL". *)
updateSuccess_KeepsLock(row, nextRun) ==
  [row EXCEPT !.fail_count = 0, !.next_run_at = nextRun]

(* updateSuccess without "fail_count = 0". *)
updateSuccess_KeepsCount(row, nextRun) ==
  [row EXCEPT !.locked_at = NullTime, !.next_run_at = nextRun]

updateSuccess(row, nextRun) ==
  [row EXCEPT !.fail_count = 0, !.locked_at = NullTime, !.next_run_at = nextRun]

(* updateFailure comparing the count before the increment. *)
updateFailure_BeforeIncrement(row, nextRun) ==
  [row EXCEPT !.fail_count = row.fail_count + 1,
              !.locked_at = NullTime,
              !.next_run_at = nextRun,
              !.enabled = IF row.fail_count >= FailThreshold THEN FALSE
                          ELSE row.enabled]

updateFailure(row, nextRun) ==
  [row EXCEPT !.fail_count = row.fail_count + 1,
              !.locked_at = NullTime,
              !.next_run_at = nextRun,
              !.enabled = IF row.fail_count + 1 >= FailThreshold THEN FALSE
                          ELSE row.enabled]

(* A commit that loses the transaction's inserts. *)
commitHist_DropsInsert(h, t) == h

(* tx.Commit(): the transaction's row version and its inserts become visible *)
commitJobs(rows, t) == [rows EXCEPT ![t.job] = t.row]
commitHist(h, t) == [h EXCEPT ![t.job] = @ \o t.hist]

(* Statements run on the connection pool instead of tx: they stay written. *)
rollbackJobs_Autocommit(rows, t) == [rows EXCEPT ![t.job] = t.row]
rollbackHist_Autocommit(h, t) == [h EXCEPT ![t.job] = @ \o t.hist]

(* tx.Rollback(), also what the store does when the connection drops or the *)
(* transaction's context is cancelled: every write of the transaction goes  *)
rollbackJobs(rows, t) == rows
rollbackHist(h, t) == h

(* ------------------- the execution and delivery steps ------------------- *)
(* What one HTTP exchange comes to.  kind "transport": httpClient.Do fails; *)
(* "read" / "close": reading or closing the body fails, text being the      *)
(* error's; "http": a response, whose body is the JSON document             *)
(* {"output_text": text} when json holds and the raw text otherwise.        *)
Failed(kind, text) == [kind |-> kind, status |-> 0, json |-> FALSE, text |-> text]
Http(status, json, text) == [kind |-> "http", status |-> status, json |-> json, text |-> text]

(* string(respBody) *)
BodyString(r) ==
  IF r.json THEN "{\"output_text\":\"" \o r.text \o "\"}" ELSE r.text

(* strconv's decimal form of a status code, as %d prints it *)
RECURSIVE Itoa(_)
Itoa(n) ==
  IF n < 10 THEN SubSeq("0123456789", n + 1, n + 1)
  ELSE Itoa(n \div 10) \o SubSeq("0123456789", (n % 10) + 1, (n % 10) + 1)

(* shouldRetryStatus that retries every error status. *)
shouldRetryStatus_AnyError(code) == code >= 400

shouldRetryStatus(code) == code = 429 \/ code = 408 \/ code >= 500

(* runPrompt's loop body that returns a blank output_text as the output. *)
runPromptStep_AcceptsBlank(attempt, r) ==
  IF r.kind \in {"transport", "read", "close"}
  THEN [retry |-> attempt < maxLLMRetries, output |-> "", err |-> r.text]
  ELSE IF r.status >= 400
  THEN [retry |-> shouldRetryStatus(r.status) /\ attempt < maxLLMRetries,
        output |-> "",
        err |-> "openai " \o Itoa(r.status) \o ": " \o BodyString(r)]
  ELSE IF ~r.json
  THEN [retry |-> FALSE, output |-> "",
        err |-> "invalid character looking for beginning of value"]
  ELSE [retry |-> FALSE, output |-> r.text, err |-> ""]

(* One iteration of runPrompt's loop, from the outcome r of its request:    *)
(* go round again (retry), or return output and err.                        *)
runPromptStep(attempt, r) ==
  IF r.kind \in {"transport", "read", "close"}
  THEN [retry |-> attempt < maxLLMRetries, output |-> "", err |-> r.text]
  ELSE IF r.status >= 400
  THEN [retry |-> shouldRetryStatus(r.status) /\ attempt < maxLLMRetries,
        output |-> "",
        err |-> "openai " \o Itoa(r.status) \o ": " \o BodyString(r)]
  ELSE IF ~r.json
  THEN [retry |-> FALSE, output |-> "",
        err |-> "invalid character looking for beginning of value"]
  ELSE IF TrimSpace(r.text) = ""
  THEN [retry |-> FALSE, output |-> "", err |-> "empty llm output"]
  ELSE [retry |-> FALSE, output |-> r.text, err |-> ""]

(* One iteration of sendJSONWithRetry's loop: go round again, or return err *)
(* ("" is nil).                                                             *)
sendStep(attempt, r, maxRetries) ==
  IF r.kind \in {"transport", "read", "close"}
  THEN [retry |-> attempt < maxRetries, err |-> r.text]
  ELSE IF r.status < 300
  THEN [retry |-> FALSE, err |-> ""]
  ELSE [retry |-> shouldRetryStatus(r.status) /\ attempt < maxRetries,
        err |-> "channel request failed " \o Itoa(r.status) \o ": " \o BodyString(r)]

(* chunk's loop without the append of the remainder after it *)
RECURSIVE chunkLoop_DropsRemainder(_, _)
chunkLoop_DropsRemainder(runes, size) ==
  IF Len(runes) > size
  THEN <<SubSeq(runes, 1, size)>>
         \o chunkLoop_DropsRemainder(SubSeq(runes, size + 1, Len(runes)), size)
  ELSE <<>>

RECURSIVE chunkLoop(_, _)
chunkLoop(runes, size) ==
  IF Len(runes) > size
  THEN <<SubSeq(runes, 1, size)>> \o chunkLoop(SubSeq(runes, size + 1, Len(runes)), size)
  ELSE IF Len(runes) > 0 THEN <<runes>> ELSE <<>>

chunk(value, size) == IF Len(value) <= size THEN <<value>> ELSE chunkLoop(value, size)

(* An encrypted value "iv:tag:ciphertext": how many ":"-separated parts it  *)
(* has, whether each is base64, whether the iv has the 12 bytes of GCM's    *)
(* standard nonce, whether the tag authenticates under the worker's key,    *)
(* and the plaintext sealed in it.                                          *)
Sealed(plain) ==
  [parts |-> 3, base64 |-> TRUE, nonce |-> TRUE, authentic |-> TRUE, plain |-> plain]
Unset ==
  [parts |-> 1, base64 |-> TRUE, nonce |-> FALSE, authentic |-> FALSE, plain |-> ""]

(* gcm.Open panics on a nonce of another length than NonceSize() *)
ErrPanic == "panic: crypto/cipher: incorrect nonce length given to GCM"

decryptString(value) ==
  IF value.parts # 3 THEN [err |-> "invalid encrypted payload", v |-> ""]
  ELSE IF ~value.base64 THEN [err |-> "illegal base64 data at input byte 0", v |-> ""]
  ELSE IF ~value.nonce THEN [err |-> ErrPanic, v |-> ""]
  ELSE IF ~value.authentic THEN [err |-> "cipher: message authentication failed", v |-> ""]
  ELSE [err |-> "", v |-> value.plain]

(* Job.ChannelConfig: a JSON object (or not) with the keys the three        *)
(* channel types read; a key the object lacks unmarshals to "".             *)
ChannelConfig(json, webhookUrl, config, botToken, chatId) ==
  [json |-> json, webhookUrlEnc |-> webhookUrl, configEnc |-> config,
   botTokenEnc |-> botToken, chatIdEnc |-> chatId]

(* The decrypted configuration of a generic webhook: a JSON object (or not) *)
WebhookCfg(json, url, method, headers, payload) ==
  [json |-> json, url |-> url, method |-> method, headers |-> headers,
   payload |-> payload]

(* json.Unmarshal over the header and payload texts the rows use *)
JSONTexts == {"{}", "{\"X-Token\":\"t\"}", "{\"Content-Type\":\"text/plain\"}",
              "{\"content-type\":\"text/plain\"}", "{\"text\":\"hello\"}", "[1]"}
(* a json.Unmarshal that accepts every text *)
JSONValid_Anything(text) == TRUE

JSONValid(text) == text \in JSONTexts

(* json.Unmarshal into map[string]string: the pairs of the object, keys as  *)
(* written; a JSON value that is not an object of strings is an error.      *)
JSONStringMap(text) ==
  CASE text = "{}" -> [ok |-> TRUE, m |-> {}]
    [] text = "{\"X-Token\":\"t\"}" -> [ok |-> TRUE, m |-> {<<"X-Token", "t">>}]
    [] text = "{\"Content-Type\":\"text/plain\"}" ->
         [ok |-> TRUE, m |-> {<<"Content-Type", "text/plain">>}]
    [] text = "{\"content-type\":\"text/plain\"}" ->
         [ok |-> TRUE, m |-> {<<"content-type", "text/plain">>}]
    [] text = "{\"text\":\"hello\"}" -> [ok |-> TRUE, m |-> {<<"text", "hello">>}]
    [] OTHER -> [ok |-> FALSE, m |-> {}]

(* the letter c in upper / lower case; any other character as it is *)
UpperChar(c) ==
  LET lower == "abcdefghijklmnopqrstuvwxyz"
      upper == "ABCDEFGHIJKLMNOPQRSTUVWXYZ"
      at == {i \in 1..26 : SubSeq(lower, i, i) = c}
  IN IF at = {} THEN c ELSE LET i == CHOOSE i \in at : TRUE IN SubSeq(upper, i, i)
LowerChar(c) ==
  LET lower == "abcdefghijklmnopqrstuvwxyz"
      upper == "ABCDEFGHIJKLMNOPQRSTUVWXYZ"
      at == {i \in 1..26 : SubSeq(upper, i, i) = c}
  IN IF at = {} THEN c ELSE LET i == CHOOSE i \in at : TRUE IN SubSeq(lower, i, i)

RECURSIVE ToUpper(_)
ToUpper(s) ==
  IF s = "" THEN "" ELSE UpperChar(SubSeq(s, 1, 1)) \o ToUpper(SubSeq(s, 2, Len(s)))

(* textproto.CanonicalMIMEHeaderKey, which http.Header.Set applies to the   *)
(* key: upper case at the start and after "-", lower case elsewhere         *)
RECURSIVE CanonicalFrom(_, _)
CanonicalFrom(s, up) ==
  IF s = "" THEN ""
  ELSE LET c == SubSeq(s, 1, 1)
       IN (IF up THEN UpperChar(c) ELSE LowerChar(c))
            \o CanonicalFrom(SubSeq(s, 2, Len(s)), c = "-")
CanonicalHeaderKey(s) == CanonicalFrom(s, TRUE)

(* The values req.Header can end with under key, after Set(k, v) for every  *)
(* pair of headers in the order the map yields them: when two keys of the   *)
(* map have the same canonical form, the one ranged over last wins, and Go  *)
(* leaves the order of a range over a map unspecified.                      *)
HeaderValues(headers, key) ==
  {p[2] : p \in {q \in headers : CanonicalHeaderKey(q[1]) = key}}

JSONHeaders == {<<"Content-Type", "application/json">>}

ErrNotJSON == "invalid character looking for beginning of value"

Pad2(n) == IF n < 10 THEN "0" \o Itoa(n) ELSE Itoa(n)

(* time.Now().Format("2006-01-02 15:04"), instant 0 being 2023-01-01 00:00; *)
(* defined for the instants of that January                                 *)
FormatTime(t) ==
  LET minute == (t % DayUnits) \div UnitsPerMinute
  IN "2023-01-" \o Pad2(1 + t \div DayUnits) \o " " \o Pad2(minute \div 60)
       \o ":" \o Pad2(minute % 60)

(* deliver up to its sends: the texts it will send one after the other,     *)
(* each through sendJSONWithRetry, or the error it returns before sending.  *)
(* wrap is what the generic webhook puts before a send's error; method and  *)
(* headers are what every send is given.                                    *)
deliverPlan(job, output, t) ==
  LET head == "[" \o job.name \o "] " \o FormatTime(t)
      message == head \o "\n\n" \o output
      cfg == job.channel_config
      Fail(e) == [err |-> e, texts |-> <<>>, wrap |-> "", method |-> "", headers |-> {}]
  IN IF job.channel_type = "discord"
     THEN LET url == decryptString(cfg.webhookUrlEnc)
          IN IF ~cfg.json THEN Fail(ErrNotJSON)
             ELSE IF url.err # "" THEN Fail(url.err)
             ELSE IF TrimSpace(url.v) = "" THEN Fail("discord webhook url is empty")
             ELSE [err |-> "", texts |-> chunk(message, 1900), wrap |-> "",
                   method |-> "POST", headers |-> JSONHeaders]
     ELSE IF job.channel_type = "webhook"
     THEN LET raw == decryptString(cfg.configEnc)
              wc == raw.v
              method == ToUpper(TrimSpace(wc.method))
              parsed == IF TrimSpace(wc.headers) # "" THEN JSONStringMap(wc.headers)
                        ELSE [ok |-> TRUE, m |-> {}]
          IN IF ~cfg.json THEN Fail(ErrNotJSON)
             ELSE IF raw.err # "" THEN Fail(raw.err)
             ELSE IF ~wc.json THEN Fail(ErrNotJSON)
             ELSE IF TrimSpace(wc.url) = "" THEN Fail("webhook url is empty")
             ELSE IF ~parsed.ok
                  THEN Fail("invalid webhook headers json: " \o ErrNotJSON)
             ELSE IF TrimSpace(wc.payload) # "" /\ ~JSONValid(wc.payload)
                  THEN Fail("invalid webhook payload json: " \o ErrNotJSON)
             ELSE [err |-> "",
                   texts |-> <<IF TrimSpace(wc.payload) # "" THEN wc.payload
                               ELSE message>>,
                   wrap |-> "webhook delivery error: ",
                   method |-> IF method = "" THEN "POST" ELSE method,
                   headers |-> IF \E q \in parsed.m : q[1] = "Content-Type"
                               THEN parsed.m ELSE parsed.m \cup JSONHeaders]
     ELSE LET botToken == decryptString(cfg.botTokenEnc)
              chatID == decryptString(cfg.chatIdEnc)
          IN IF ~cfg.json THEN Fail(ErrNotJSON)
             ELSE IF botToken.err # "" THEN Fail(botToken.err)
             ELSE IF chatID.err # "" THEN Fail(chatID.err)
             ELSE IF TrimSpace(botToken.v) = "" \/ TrimSpace(chatID.v) = ""
                  THEN Fail("telegram bot token/chat id is empty")
             ELSE [err |-> "", texts |-> chunk(message, 4000), wrap |-> "",
                   method |-> "POST", headers |-> JSONHeaders]

Init ==
  /\ now = 0
  /\ jobs \in SeedTables
  /\ hist = [j \in JobIds |-> <<>>]
  /\ updates = [j \in JobIds |-> 0]
  /\ pc = [w \in Workers |-> "idle"]
  /\ tx = [w \in Workers |-> NoTx]
  /\ run = [w \in Workers |-> NoRun]
  /\ snap = [w \in Workers |-> NoSnap]

(* ------------------------------ processOnce ---------------------------- *)
(* A worker that starts a cycle at every tick, the last one finished or not *)
LockNextJob_NoWait(w) ==
  /\ pc[w] \in {"idle", "claimed", "inserted"}
  /\ LET found == lockQuery(jobs, now, HeldByOthers(w) \cup {tx[w].job})
     IN IF found = {}
        THEN UNCHANGED <<pc, tx, snap>>
        ELSE \E j \in found :
               /\ tx' = [tx EXCEPT ![w] = [job |-> j, row |-> lockRow(jobs[j], now),
                                            hist |-> <<>>, upd |-> 0]]
               /\ snap' = [snap EXCEPT ![w] = [row |-> jobs[j], nhist |-> Len(hist[j]),
                                                at |-> now]]
               /\ pc' = [pc EXCEPT ![w] = "claimed"]
  /\ UNCHANGED <<now, jobs, hist, updates, run>>

(* BeginTx and lockNextJob; on sql.ErrNoRows the empty transaction commits. *)
LockNextJob(w) ==
  /\ pc[w] = "idle"
  /\ LET found == lockQuery(jobs, now, HeldByOthers(w))
     IN IF found = {}
        THEN UNCHANGED <<pc, tx, snap>>
        ELSE \E j \in found :
               /\ tx' = [tx EXCEPT ![w] = [job |-> j, row |-> lockRow(jobs[j], now),
                                            hist |-> <<>>, upd |-> 0]]
               /\ snap' = [snap EXCEPT ![w] = [row |-> jobs[j], nhist |-> Len(hist[j]),
                                                at |-> now]]
               /\ pc' = [pc EXCEPT ![w] = "claimed"]
  /\ UNCHANGED <<now, jobs, hist, updates, run>>

(* What runPrompt and deliver come to, seen from processOnce: an output    *)
(* that was delivered, or an error; one error text stands for every error  *)
(* of the two steps.                                                        *)
RunOutcomes ==
  { [output |-> "ok", err |-> ""],
    [output |-> "", err |-> "empty llm output"] }

(* fmt.Errorf("schedule calc error: %w", calcErr), without calcErr's text *)
ErrScheduleCalc == "schedule calc error: "

(* runPrompt, deliver when runErr == nil, computeNextRun with its fallback, *)
(* then insertHistory: the steps of a cycle that touch no committed state.  *)
RunAndInsert(w) ==
  /\ pc[w] = "claimed"
  /\ \E r \in RunOutcomes :
       LET calc == computeNextRun(tx[w].row, now)
           runErr == IF calc.ok THEN r.err ELSE ErrScheduleCalc
           next == IF calc.ok THEN calc.at ELSE now + FallbackDelay
           status == IF runErr = "" THEN "success" ELSE "fail"
       IN /\ run' = [run EXCEPT ![w] = [status |-> status, next |-> next]]
          /\ tx' = [tx EXCEPT ![w].hist =
                      IF runErr = ""
                      THEN insertHistory(@, "success", truncate(r.output, 1000), "")
                      ELSE insertHistory(@, "fail", "", truncate(runErr, 500))]
  /\ pc' = [pc EXCEPT ![w] = "inserted"]
  /\ UNCHANGED <<now, jobs, hist, updates, snap>>

(* updateSuccess or updateFailure, then tx.Commit() *)
UpdateAndCommit(w) ==
  /\ pc[w] = "inserted"
  /\ LET row == IF run[w].status = "success" THEN updateSuccess(tx[w].row, run[w].next)
                ELSE updateFailure(tx[w].row, run[w].next)
         t == [tx[w] EXCEPT !.row = row, !.upd = @ + 1]
     IN /\ jobs' = commitJobs(jobs, t)
        /\ hist' = commitHist(hist, t)
        /\ updates' = [updates EXCEPT ![t.job] = @ + t.upd]
  /\ pc' = [pc EXCEPT ![w] = "idle"]
  /\ tx' = [tx EXCEPT ![w] = NoTx]
  /\ run' = [run EXCEPT ![w] = NoRun]
  /\ snap' = [snap EXCEPT ![w] = NoSnap]
  /\ UNCHANGED now

InFlight(w) == pc[w] \in {"claimed", "inserted"}

(* A cycle context made without the timeout. *)
DeadlineExceeded_NoTimeout(w) ==
  /\ InFlight(w)
  /\ FALSE
  /\ UNCHANGED vars

(* The cycle ends without commit: the deferred tx.Rollback() runs. *)
Abandon(w, to) ==
  /\ jobs' = rollbackJobs(jobs, tx[w])
  /\ hist' = rollbackHist(hist, tx[w])
  /\ pc' = [pc EXCEPT ![w] = to]
  /\ tx' = [tx EXCEPT ![w] = NoTx]
  /\ run' = [run EXCEPT ![w] = NoRun]
  /\ snap' = [snap EXCEPT ![w] = NoSnap]
  /\ UNCHANGED <<now, updates>>

(* context.WithTimeout(parent, cycleTimeout) expires: the step in progress  *)
(* returns ctx.Err(), every later statement on tx fails, the cycle returns. *)
DeadlineExceeded(w) ==
  /\ InFlight(w)
  /\ now >= snap[w].at + CycleTimeout
  /\ Abandon(w, "idle")

(* SIGTERM / os.Interrupt: the parent context is cancelled; a cycle in       *)
(* flight is cancelled with it and main returns at its next select.          *)
Shutdown(w) ==
  /\ pc[w] # "stopped"
  /\ Abandon(w, "stopped")

(* The process dies (or a statement on tx fails) and the store drops the    *)
(* transaction; the service manager starts the worker again.                *)
Crash(w) ==
  /\ InFlight(w)
  /\ Abandon(w, "idle")

Tick ==
  /\ now < MaxTime
  /\ now' = now + 1
  /\ UNCHANGED <<jobs, hist, updates, pc, tx, run, snap>>

Next ==
  \/ Tick
  \/ \E w \in Workers :
       \/ LockNextJob(w)
       \/ RunAndInsert(w)
       \/ UpdateAndCommit(w)
       \/ DeadlineExceeded(w)
       \/ Shutdown(w)
       \/ Crash(w)

Spec == Init /\ [][Next]_vars

(* The fleet with the progress its code makes: the clock runs on, the       *)
(* ticker fires, and a cycle that is neither cancelled nor killed goes on   *)
(* to its next statement.  Nothing makes a cycle outrun its deadline or a   *)
(* crash.                                                                   *)
FairSpec ==
  /\ Spec
  /\ WF_vars(Tick)
  /\ \A w \in Workers :
       WF_vars(LockNextJob(w) \/ RunAndInsert(w) \/ UpdateAndCommit(w))

(* ---------------------- the dispatch loop at shutdown -------------------- *)
(* SIGTERM / os.Interrupt cancels the context of main: a cycle in flight    *)
(* is cancelled and rolls back; main is at its select with ctx.Done()       *)
(* ready.                                                                   *)
Signal(w) ==
  /\ pc[w] \in {"idle", "claimed", "inserted"}
  /\ Abandon(w, "signalled")

(* ticker.C is ready as well and select, which picks among its ready cases  *)
(* at random, takes it: main calls processOnce.                             *)
TickAfterSignal(w) ==
  /\ pc[w] = "signalled"
  /\ pc' = [pc EXCEPT ![w] = "beginTx"]
  /\ UNCHANGED <<now, jobs, hist, updates, tx, run, snap>>

(* db.BeginTx returns ctx.Err() on the cancelled context; processOnce       *)
(* returns it, main logs it and is at its select again.                     *)
BeginTxCancelled(w) ==
  /\ pc[w] = "beginTx"
  /\ pc' = [pc EXCEPT ![w] = "signalled"]
  /\ UNCHANGED <<now, jobs, hist, updates, tx, run, snap>>

(* select takes ctx.Done(): main returns. *)
LeaveLoop(w) ==
  /\ pc[w] = "signalled"
  /\ pc' = [pc EXCEPT ![w] = "stopped"]
  /\ UNCHANGED <<now, jobs, hist, updates, tx, run, snap>>

StopNext ==
  \/ Tick
  \/ \E w \in Workers :
       \/ LockNextJob(w)
       \/ RunAndInsert(w)
       \/ UpdateAndCommit(w)
       \/ Signal(w)
       \/ TickAfterSignal(w)
       \/ BeginTxCancelled(w)
       \/ LeaveLoop(w)

StopSpec == Init /\ [][StopNext]_vars

(* ------------------- cycles whose calls can hang ------------------------- *)
(* The clock runs on for one cycle deadline after the last instant at which *)
(* a cycle starts.                                                          *)
HangTick ==
  /\ now < MaxTime + CycleTimeout
  /\ now' = now + 1
  /\ UNCHANGED <<jobs, hist, updates, pc, tx, run, snap>>

HangNext ==
  \/ HangTick
  \/ \E w \in Workers :
       \/ now <= MaxTime /\ LockNextJob(w)
       \/ RunAndInsert(w)
       \/ UpdateAndCommit(w)
       \/ DeadlineExceeded(w)

(* Nothing makes runPrompt, deliver or a statement on tx return: only the   *)
(* clock and the timer of context.WithTimeout are sure to go on.            *)
HangSpec ==
  /\ Init
  /\ [][HangNext]_vars
  /\ WF_vars(HangTick)
  /\ \A w \in Workers : WF_vars(DeadlineExceeded(w))

(* --------------------------- parsePollInterval --------------------------- *)
(* A time.Duration: a sign, whole seconds and the nanoseconds beyond them.  *)
NanosPerSecond == 1000 * 1000 * 1000
Duration(neg, sec, nanos) ==
  [neg |-> neg /\ (sec + nanos \div NanosPerSecond > 0 \/ nanos % NanosPerSecond > 0),
   s |-> sec + nanos \div NanosPerSecond,
   ns |-> nanos % NanosPerSecond]
Second == Duration(FALSE, 1, 0)
defaultPollInterval == Duration(FALSE, 10, 0)
LessThan(d, e) ==
  IF d.neg # e.neg THEN d.neg
  ELSE LET below == d.s < e.s \/ (d.s = e.s /\ d.ns < e.ns)
       IN IF d.neg THEN ~below /\ d # e ELSE below

RECURSIVE Pow10(_)
Pow10(k) == IF k = 0 THEN 1 ELSE 10 * Pow10(k - 1)

(* the number of leading characters of s that are decimal digits, or that   *)
(* are neither a digit nor "."                                              *)
RECURSIVE Leading(_, _)
Leading(s, digits) ==
  IF Len(s) > 0 /\ SubSeq(s, 1, 1) # "." /\ (DigitVal(SubSeq(s, 1, 1)) >= 0) = digits
  THEN 1 + Leading(SubSeq(s, 2, Len(s)), digits) ELSE 0

RECURSIVE DecimalVal(_, _)
DecimalVal(s, acc) ==
  IF s = "" THEN acc
  ELSE DecimalVal(SubSeq(s, 2, Len(s)), acc * 10 + DigitVal(SubSeq(s, 1, 1)))

(* time's unitMap: a unit as whole seconds or as nanoseconds, known or not *)
Unit(u) ==
  CASE u = "ns" -> [ok |-> TRUE, sec |-> 0, nanos |-> 1]
    [] u = "us" -> [ok |-> TRUE, sec |-> 0, nanos |-> 1000]
    [] u = "ms" -> [ok |-> TRUE, sec |-> 0, nanos |-> 1000 * 1000]
    [] u = "s" -> [ok |-> TRUE, sec |-> 0, nanos |-> NanosPerSecond]
    [] u = "m" -> [ok |-> TRUE, sec |-> 60, nanos |-> 0]
    [] u = "h" -> [ok |-> TRUE, sec |-> 3600, nanos |-> 0]
    [] OTHER -> [ok |-> FALSE, sec |-> 0, nanos |-> 0]

(* v units and f / 10^k of a unit more, the fraction cut at the nanosecond *)
Scaled(v, f, k, u) ==
  IF Unit(u).sec > 0
  THEN Duration(FALSE, v * Unit(u).sec + (f * Unit(u).sec) \div Pow10(k),
                ((f * Unit(u).sec) % Pow10(k)) * (NanosPerSecond \div Pow10(k)))
  ELSE LET per == NanosPerSecond \div Unit(u).nanos
       IN Duration(FALSE, v \div per,
                   (v % per) * Unit(u).nanos
                     + (IF Pow10(k) <= Unit(u).nanos
                        THEN f * (Unit(u).nanos \div Pow10(k))
                        ELSE (f * Unit(u).nanos) \div Pow10(k)))

(* time.ParseDuration after the sign: one or more of digits, an optional    *)
(* fraction and a unit                                                      *)
RECURSIVE ParseTerms(_, _)
ParseTerms(s, acc) ==
  IF s = "" THEN [ok |-> TRUE, d |-> acc]
  ELSE LET pl == Leading(s, TRUE)
           afterInt == SubSeq(s, pl + 1, Len(s))
           dot == Len(afterInt) > 0 /\ SubSeq(afterInt, 1, 1) = "."
           afterDot == IF dot THEN SubSeq(afterInt, 2, Len(afterInt)) ELSE afterInt
           fl == IF dot THEN Leading(afterDot, TRUE) ELSE 0
           afterNum == SubSeq(afterDot, fl + 1, Len(afterDot))
           ul == Leading(afterNum, FALSE)
           u == SubSeq(afterNum, 1, ul)
       IN IF pl + fl = 0 \/ ul = 0 \/ ~Unit(u).ok
          THEN [ok |-> FALSE, d |-> Duration(FALSE, 0, 0)]
          ELSE LET term == Scaled(DecimalVal(SubSeq(s, 1, pl), 0),
                                  DecimalVal(SubSeq(afterDot, 1, fl), 0), fl, u)
               IN ParseTerms(SubSeq(afterNum, ul + 1, Len(afterNum)),
                             Duration(FALSE, acc.s + term.s, acc.ns + term.ns))

(* time.ParseDuration: an optional sign, then "0" or a sequence of terms *)
ParseDuration(text) ==
  LET signed == Len(text) > 0 /\ SubSeq(text, 1, 1) \in {"+", "-"}
      neg == signed /\ SubSeq(text, 1, 1) = "-"
      body == IF signed THEN SubSeq(text, 2, Len(text)) ELSE text
      r == ParseTerms(body, Duration(FALSE, 0, 0))
  IN IF body = "0" THEN [ok |-> TRUE, d |-> Duration(FALSE, 0, 0)]
     ELSE IF body = "" THEN [ok |-> FALSE, d |-> Duration(FALSE, 0, 0)]
     ELSE [ok |-> r.ok, d |-> Duration(neg, r.d.s, r.d.ns)]

(* parsePollInterval that clamps whatever parses. *)
parsePollInterval_ClampsAll(env) ==
  LET raw == TrimSpace(env)
      parsed == ParseDuration(raw)
  IN IF raw = "" THEN defaultPollInterval
     ELSE IF ~parsed.ok THEN defaultPollInterval
     ELSE IF LessThan(parsed.d, Second) THEN Second
     ELSE parsed.d

(* env is the value of WORKER_POLL_INTERVAL, "" when it is not set *)
parsePollInterval(env) ==
  LET raw == TrimSpace(env)
      parsed == ParseDuration(raw)
  IN IF raw = "" THEN defaultPollInterval
     ELSE IF ~parsed.ok \/ ~LessThan(Duration(FALSE, 0, 0), parsed.d) THEN defaultPollInterval
     ELSE IF LessThan(parsed.d, Second) THEN Second
     ELSE parsed.d

(* Settings an operator can write: a sign or none, a number, a unit or      *)
(* none, alone or followed by a second term; and texts that are no duration *)
PollSettings ==
  {sign \o n \o u :
     sign \in {"", "-", "+"},
     n \in {"0", "1", "999", "1000", "1001", "1.5", ".5", "0.0004", "30"},
     u \in {"", "ns", "us", "ms", "s", "m", "sec"}}
  \cup {"", "  ", " 5s ", "1s500ms", "999ms1ms", "500ms499ms", "1m30s", "1h",
        "abc", "s", ".s", "1 s", "-", "10S", "0s0ms"}

PollInit ==
  /\ now = 0
  /\ jobs = [j \in JobIds |-> NoTx.row]
  /\ hist = [j \in JobIds |-> <<>>]
  /\ updates = [j \in JobIds |-> 0]
  /\ pc = [w \in Workers |-> "parsePollInterval"]
  /\ tx = [w \in Workers |-> NoTx]
  /\ \E env \in PollSettings :
       run = [w \in Workers |-> [status |-> "", next |-> 0, env |-> env,
                                 interval |-> Duration(FALSE, 0, 0)]]
  /\ snap = [w \in Workers |-> NoSnap]

PollCall(w) ==
  /\ pc[w] = "parsePollInterval"
  /\ run' = [run EXCEPT ![w].interval = parsePollInterval(run[w].env)]
  /\ pc' = [pc EXCEPT ![w] = "started"]
  /\ UNCHANGED <<now, jobs, hist, updates, tx, snap>>

PollSpec == PollInit /\ [][\E w \in Workers : PollCall(w)]_vars

(* ------------------------ the job editor's update ------------------------ *)
(* Instants computeNextRunAt can return at instant t; its code is not in    *)
(* this tree, and any instant after t is possible: two stand for them.      *)
computeNextRunAt(t) == {t + 1, t + UnitsPerMinute}

(* update_job that also clears the failure count. *)
update_job_ResetsFailCount(j) ==
  /\ Holders(j) = {}
  /\ \E nextEnabled \in BOOLEAN, nextRunAt \in computeNextRunAt(now) :
       jobs' = [jobs EXCEPT ![j].enabled = nextEnabled,
                            ![j].next_run_at = nextRunAt,
                            ![j].fail_count = 0]
  /\ UNCHANGED <<now, hist, updates, pc, tx, run, snap>>

(* prisma.job.update of the chat tool update_job with the schedule and the  *)
(* channel left as they are: an UPDATE of its own transaction, which waits  *)
(* for a worker's row lock; enabled is the input's value or the one read    *)
(* before, nextRunAt is computed anew.                                      *)
update_job(j) ==
  /\ Holders(j) = {}
  /\ \E nextEnabled \in BOOLEAN, nextRunAt \in computeNextRunAt(now) :
       jobs' = [jobs EXCEPT ![j].enabled = nextEnabled,
                            ![j].next_run_at = nextRunAt]
  /\ UNCHANGED <<now, hist, updates, pc, tx, run, snap>>

EditNext ==
  \/ Tick
  \/ \E j \in JobIds : update_job(j)
  \/ \E w \in Workers :
       \/ LockNextJob(w)
       \/ RunAndInsert(w)
       \/ UpdateAndCommit(w)

EditSpec == Init /\ [][EditNext]_vars

(* ------------------------------ retryBackoff ----------------------------- *)
(* The durations, in milliseconds, retryBackoff(attempt) can return.  The   *)
(* product 400 ms * 2^(attempt-1) is a float64; as nanoseconds it fits an   *)
(* int64 up to attempt 35.  Beyond that the conversion to time.Duration     *)
(* gives a value the platform chooses: the lowest int64 where the machine   *)
(* instruction answers "indefinite" (amd64), which is below 4 s and is      *)
(* returned as it is, -1 standing for it here, or the highest int64 where   *)
(* the conversion saturates (arm64), which is cut to 4 s.                   *)
RECURSIVE retryBackoff(_)
retryBackoff(attempt) ==
  IF attempt < 1 THEN retryBackoff(1)
  ELSE IF attempt > 35 THEN {0 - 1, 4 * 1000}
  ELSE IF attempt > 4 THEN {4 * 1000}
  ELSE {400 * (2 ^ (attempt - 1))}

(* every worker is about to call retryBackoff(attempt) *)
BackoffInit ==
  /\ now = 0
  /\ jobs = [j \in JobIds |-> NoTx.row]
  /\ hist = [j \in JobIds |-> <<>>]
  /\ updates = [j \in JobIds |-> 0]
  /\ pc = [w \in Workers |-> "retryBackoff"]
  /\ tx = [w \in Workers |-> NoTx]
  /\ \E a \in [Workers -> (0 - 2)..MaxAttempt] :
       run = [w \in Workers |-> [status |-> "", next |-> 0, attempt |-> a[w],
                                 backoff |-> 0]]
  /\ snap = [w \in Workers |-> NoSnap]

BackoffCall(w) ==
  /\ pc[w] = "retryBackoff"
  /\ \E d \in retryBackoff(run[w].attempt) :
       run' = [run EXCEPT ![w].backoff = d]
  /\ pc' = [pc EXCEPT ![w] = "returned"]
  /\ UNCHANGED <<now, jobs, hist, updates, tx, snap>>

BackoffSpec == BackoffInit /\ [][\E w \in Workers : BackoffCall(w)]_vars

(* ------------------- one job over many cycles --------------------------- *)
(* A table whose first job runs every minute and has never failed; the      *)
(* other jobs were disabled by their owners.                                *)
TheJob == CHOOSE j \in JobIds : \A k \in JobIds : j <= k

LifeInit ==
  /\ now = 0
  /\ jobs = [j \in JobIds |->
               Row(j = TheJob, 0, NullTime, 0, "cron", T0001, NullInt,
                   SomeStr(CronEveryMinute))]
  /\ hist = [j \in JobIds |-> <<>>]
  /\ updates = [j \in JobIds |-> 0]
  /\ pc = [w \in Workers |-> "idle"]
  /\ tx = [w \in Workers |-> NoTx]
  /\ run = [w \in Workers |-> NoRun]
  /\ snap = [w \in Workers |-> NoSnap]

LifeTick ==
  /\ now < MaxLife
  /\ now' = now + 1
  /\ UNCHANGED <<jobs, hist, updates, pc, tx, run, snap>>

LifeNext ==
  \/ LifeTick
  \/ \E w \in Workers :
       \/ LockNextJob(w)
       \/ RunAndInsert(w)
       \/ UpdateAndCommit(w)
       \/ DeadlineExceeded(w)
       \/ Crash(w)

LifeSpec == LifeInit /\ [][LifeNext]_vars

(* ------------------ one cycle per schedule and instant ------------------- *)
(* Schedule fields a row can hold, and instants around the times they name. *)
T0000 == <<"0", "0", ":", "0", "0">>
T0900 == <<"0", "9", ":", "0", "0">>
T2359 == <<"2", "3", ":", "5", "9">>
SchedTimes == {T0000, T0001, T0900, T2359}
SchedTimesBad ==
  { <<>>, <<"9">>, <<"2", "4", ":", "0", "0">>, <<"0", "9", ":", "6", "0">>,
    <<"0", "9", ":", "x", "x">>, <<"0", "9", ":", "0", "0", ":", "0", "0">> }
SchedDays == {NullInt} \cup {SomeInt(d) : d \in (0 - 1)..7}
SchedCrons == {NullStr, SomeStr(CronEveryMinute), SomeStr(CronFeb30), SomeStr("bad")}

SchedRows ==
  {Row(TRUE, 0, NullTime, 0, "daily", tm, NullInt, NullStr) :
     tm \in SchedTimes \cup SchedTimesBad}
  \cup {Row(TRUE, 0, NullTime, 0, "weekly", tm, d, NullStr) :
          tm \in SchedTimes, d \in SchedDays}
  \cup {Row(TRUE, 0, NullTime, 0, "weekly", tm, SomeInt(0), NullStr) :
          tm \in SchedTimesBad}
  \cup {Row(TRUE, 0, NullTime, 0, "cron", T0000, NullInt, c) : c \in SchedCrons}
  \cup {Row(TRUE, 0, NullTime, 0, ty, T0900, NullInt, NullStr) : ty \in {"", "monthly"}}

(* 00:00, 00:00:30, 00:01, 00:01:30, 08:00, 08:59:30, 09:00, 09:00:30,      *)
(* 23:59 and 23:59:30 of each day of a week                                 *)
SchedInstants ==
  {d * DayUnits + m * UnitsPerMinute + h :
     d \in 0..6, m \in {0, 1, 8 * 60, 9 * 60 - 1, 9 * 60, 24 * 60 - 1}, h \in {0, 1}}

(* The first job is due now; the other rows of the table are disabled. *)
SchedInit ==
  /\ now \in SchedInstants
  /\ \E r \in SchedRows :
       jobs = [j \in JobIds |->
                 [r EXCEPT !.enabled = (j = TheJob), !.next_run_at = now]]
  /\ hist = [j \in JobIds |-> <<>>]
  /\ updates = [j \in JobIds |-> 0]
  /\ pc = [w \in Workers |-> "idle"]
  /\ tx = [w \in Workers |-> NoTx]
  /\ run = [w \in Workers |-> NoRun]
  /\ snap = [w \in Workers |-> NoSnap]

(* a worker polls while the job has fewer than MaxRuns committed cycles *)
SchedClaim(w) ==
  /\ Len(hist[TheJob]) < MaxRuns
  /\ LockNextJob(w)

(* The clock moves on between computeNextRun and the commit of the cycle. *)
SchedTick ==
  /\ \E w \in Workers : pc[w] = "inserted" /\ now = snap[w].at
  /\ now' = now + 1
  /\ UNCHANGED <<jobs, hist, updates, pc, tx, run, snap>>

SchedNext ==
  \/ SchedTick
  \/ \E w \in Workers :
       \/ SchedClaim(w)
       \/ RunAndInsert(w)
       \/ UpdateAndCommit(w)

SchedSpec == SchedInit /\ [][SchedNext]_vars

(* --------------- one cycle, request by request --------------------------- *)
(* an output longer than a preview and than one Discord message *)
LongOutput == Rep("0123456789", 199)

(* What the execution service can answer to one request; the last answer   *)
(* is a text that starts with a thousand blanks.                            *)
LLMResponses ==
  { Failed("transport", "dial tcp: connection refused"),
    Failed("read", "unexpected EOF"),
    Failed("close", "close failed"),
    Http(400, FALSE, "bad request"),
    Http(408, FALSE, "timeout"),
    Http(429, FALSE, "slow down"),
    Http(500, FALSE, "oops"),
    Http(200, FALSE, "<html>"),
    Http(200, TRUE, ""),
    Http(200, TRUE, " \n\t"),
    Http(200, TRUE, "ok"),
    Http(200, TRUE, LongOutput),
    Http(200, TRUE, Rep(" ", 1000) \o "late") }

(* What a delivery endpoint can answer to one request; 101 is the          *)
(* informational status that httpClient.Do hands back as a response.       *)
ChannelResponses ==
  { Failed("transport", "dial tcp: connection refused"),
    Http(101, FALSE, ""),
    Http(200, FALSE, "ok"),
    Http(302, FALSE, "moved"),
    Http(404, FALSE, "unknown webhook"),
    Http(429, FALSE, "slow down"),
    Http(500, FALSE, "oops") }

(* Channel settings the editor can have stored.  Discord: a webhook, and   *)
(* urls that were never set, are cut short, are not base64, were sealed     *)
(* under another key, have an iv cut short, or are blank.  Telegram: a bot, and one whose chat id *)
(* was sealed under another key or whose token is blank.  Generic webhook:  *)
(* the settings of WebhookSettings (the last is a plaintext that is not a   *)
(* JSON object, the empty one included), and a config sealed under another  *)
(* key.  A type the worker does not know: with no secrets, and with the     *)
(* secrets of a bot.                                                        *)
Tampered == [Sealed("") EXCEPT !.authentic = FALSE]
DiscordUrls ==
  { Sealed("https://discord.test/hook"), Unset, Tampered, Sealed(" "),
    [Tampered EXCEPT !.parts = 2],
    [Tampered EXCEPT !.base64 = FALSE],
    [Tampered EXCEPT !.nonce = FALSE] }
TelegramSecrets ==
  { <<Sealed("12:ab"), Sealed("42")>>, <<Sealed("12:ab"), Tampered>>,
    <<Sealed(""), Sealed("42")>>, <<Unset, Sealed("42")>> }
NoWebhookCfg == WebhookCfg(FALSE, "", "", "", "")
UnsetCfg == [Unset EXCEPT !.plain = NoWebhookCfg]
WebhookSettings ==
  { WebhookCfg(TRUE, "https://hook.test/in", "", "", ""),
    WebhookCfg(TRUE, "https://hook.test/in", " put ", "{\"X-Token\":\"t\"}", "{\"text\":\"hello\"}"),
    WebhookCfg(TRUE, "https://hook.test/in", "get", "{\"Content-Type\":\"text/plain\"}", "[1]"),
    WebhookCfg(TRUE, "https://hook.test/in", "  ", "{\"content-type\":\"text/plain\"}", " "),
    WebhookCfg(TRUE, "https://hook.test/in", "", "{not json", ""),
    WebhookCfg(TRUE, "https://hook.test/in", "", "[1]", ""),
    WebhookCfg(TRUE, "https://hook.test/in", "", "", "{not json"),
    WebhookCfg(TRUE, " ", "", "", ""),
    NoWebhookCfg }
Channels ==
  {[channel_type |-> "discord",
    channel_config |-> ChannelConfig(TRUE, url, UnsetCfg, Unset, Unset)] :
     url \in DiscordUrls}
  \cup {[channel_type |-> "telegram",
         channel_config |-> ChannelConfig(TRUE, Unset, UnsetCfg, s[1], s[2])] :
          s \in TelegramSecrets}
  \cup {[channel_type |-> "webhook",
         channel_config |-> ChannelConfig(TRUE, Unset, c, Unset, Unset)] :
          c \in {Sealed(wc) : wc \in WebhookSettings}
                 \cup {[Sealed(NoWebhookCfg) EXCEPT !.authentic = FALSE]}}
  \cup {[channel_type |-> "slack",
         channel_config |-> ChannelConfig(TRUE, Unset, UnsetCfg, s[1], s[2])] :
          s \in {<<Unset, Unset>>, <<Sealed("12:ab"), Sealed("42")>>}}

CycleSchedules ==
  { Row(TRUE, 0, NullTime, 0, "daily", T0900, NullInt, NullStr),
    Row(TRUE, 0, NullTime, 0, "cron", T0000, NullInt, SomeStr("bad")) }

(* 08:00 and 09:00 of the first day *)
CycleInstants == {8 * 60 * UnitsPerMinute, 9 * 60 * UnitsPerMinute}

(* A row as lockNextJob scans it: the name and channel columns as well; the *)
(* job with the rejected cron expression delivers to Discord.               *)
CycleInit ==
  /\ now \in CycleInstants
  /\ \E r \in CycleSchedules, c \in Channels :
       /\ r.schedule_type = "cron" => c.channel_type = "discord"
       /\ jobs = [j \in JobIds |->
                 [r EXCEPT !.enabled = (j = TheJob), !.next_run_at = now]
                   @@ [name |-> "digest", channel_type |-> c.channel_type,
                       channel_config |-> c.channel_config]]
  /\ hist = [j \in JobIds |-> <<>>]
  /\ updates = [j \in JobIds |-> 0]
  /\ pc = [w \in Workers |-> "idle"]
  /\ tx = [w \in Workers |-> NoTx]
  /\ run = [w \in Workers |-> NoRun]
  /\ snap = [w \in Workers |-> NoSnap]

(* processOnce's locals while runPrompt and deliver run: the exchanges made *)
(* with the execution service (llm) and with the channel (sent, each with   *)
(* the index of the text it carried, its method and its Content-Type), the  *)
(* texts deliver has to send (plan) and the method and header map it sends  *)
(* them with.                                                               *)
Locals(attempt, llm, output, runErr, plan, wrap, k, sent) ==
  [status |-> "", next |-> 0, attempt |-> attempt, llm |-> llm, output |-> output,
   runErr |-> runErr, plan |-> plan, wrap |-> wrap, k |-> k, sent |-> sent,
   method |-> "", headers |-> {}]

(* One iteration of runPrompt's loop. *)
RunPromptAttempt(w) ==
  /\ pc[w] \in {"claimed", "runPrompt"}
  /\ \E r \in LLMResponses :
       LET attempt == IF pc[w] = "claimed" THEN 1 ELSE run[w].attempt
           llm == IF pc[w] = "claimed" THEN <<r>> ELSE Append(run[w].llm, r)
           step == runPromptStep(attempt, r)
       IN IF step.retry
          THEN /\ run' = [run EXCEPT ![w] = Locals(attempt + 1, llm, "", "", <<>>, "", 0, <<>>)]
               /\ pc' = [pc EXCEPT ![w] = "runPrompt"]
          ELSE /\ run' = [run EXCEPT ![w] = Locals(attempt, llm, step.output, step.err,
                                                   <<>>, "", 0, <<>>)]
               /\ pc' = [pc EXCEPT ![w] = IF step.err = "" THEN "deliver" ELSE "compute"]
  /\ UNCHANGED <<now, jobs, hist, updates, tx, snap>>

(* deliver, entered because runErr == nil, up to its first send.  A panic   *)
(* in it ends the process, nothing recovering it: the store drops the       *)
(* transaction and the service manager starts the worker again.             *)
Deliver(w) ==
  /\ pc[w] = "deliver"
  /\ LET plan == deliverPlan(tx[w].row, run[w].output, now)
     IN IF plan.err = ErrPanic
        THEN Abandon(w, "idle")
        ELSE /\ IF plan.err # ""
                THEN /\ run' = [run EXCEPT ![w].runErr = plan.err]
                     /\ pc' = [pc EXCEPT ![w] = "compute"]
                ELSE /\ run' = [run EXCEPT ![w].plan = plan.texts,
                                           ![w].wrap = plan.wrap,
                                           ![w].method = plan.method,
                                           ![w].headers = plan.headers,
                                           ![w].k = 1, ![w].attempt = 1]
                     /\ pc' = [pc EXCEPT ![w] = "send"]
             /\ UNCHANGED <<now, jobs, hist, updates, tx, snap>>

(* One iteration of sendJSONWithRetry's loop for the k-th text of deliver. *)
SendAttempt(w) ==
  /\ pc[w] = "send"
  /\ \E r \in ChannelResponses, ctype \in HeaderValues(run[w].headers, "Content-Type") :
       LET step == sendStep(run[w].attempt, r, maxDeliveryRetries)
           sent == Append(run[w].sent, [k |-> run[w].k, resp |-> r,
                                        method |-> run[w].method, ctype |-> ctype])
       IN IF step.retry
          THEN /\ run' = [run EXCEPT ![w].sent = sent, ![w].attempt = @ + 1]
               /\ pc' = pc
          ELSE IF step.err # ""
          THEN /\ run' = [run EXCEPT ![w].sent = sent,
                                     ![w].runErr = run[w].wrap \o step.err]
               /\ pc' = [pc EXCEPT ![w] = "compute"]
          ELSE IF run[w].k < Len(run[w].plan)
          THEN /\ run' = [run EXCEPT ![w].sent = sent, ![w].k = @ + 1,
                                     ![w].attempt = 1]
               /\ pc' = pc
          ELSE /\ run' = [run EXCEPT ![w].sent = sent]
               /\ pc' = [pc EXCEPT ![w] = "compute"]
  /\ UNCHANGED <<now, jobs, hist, updates, tx, snap>>

(* processOnce that keeps an error of runPrompt or deliver when the         *)
(* schedule computation fails as well.                                      *)
ComputeAndInsert_KeepsFirstError(w) ==
  /\ pc[w] = "compute"
  /\ LET calc == computeNextRun(tx[w].row, now)
         runErr == IF calc.ok \/ run[w].runErr # "" THEN run[w].runErr
                   ELSE ErrScheduleCalc
         next == IF calc.ok THEN calc.at ELSE now + FallbackDelay
     IN /\ run' = [run EXCEPT ![w].runErr = runErr, ![w].next = next,
                              ![w].status = IF runErr = "" THEN "success" ELSE "fail"]
        /\ tx' = [tx EXCEPT ![w].hist =
                    IF runErr = ""
                    THEN insertHistory(@, "success", truncate(run[w].output, 1000), "")
                    ELSE insertHistory(@, "fail", "", truncate(runErr, 500))]
  /\ pc' = [pc EXCEPT ![w] = "inserted"]
  /\ UNCHANGED <<now, jobs, hist, updates, snap>>

(* computeNextRun with its fallback, then insertHistory. *)
ComputeAndInsert(w) ==
  /\ pc[w] = "compute"
  /\ LET calc == computeNextRun(tx[w].row, now)
         runErr == IF calc.ok THEN run[w].runErr ELSE ErrScheduleCalc
         next == IF calc.ok THEN calc.at ELSE now + FallbackDelay
     IN /\ run' = [run EXCEPT ![w].runErr = runErr, ![w].next = next,
                              ![w].status = IF runErr = "" THEN "success" ELSE "fail"]
        /\ tx' = [tx EXCEPT ![w].hist =
                    IF runErr = ""
                    THEN insertHistory(@, "success", truncate(run[w].output, 1000), "")
                    ELSE insertHistory(@, "fail", "", truncate(runErr, 500))]
  /\ pc' = [pc EXCEPT ![w] = "inserted"]
  /\ UNCHANGED <<now, jobs, hist, updates, snap>>

ErrCanceled == "context canceled"

(* A retry loop that goes on to its next request although the cycle's      *)
(* context was cancelled; the request fails on the cancelled context.      *)
BackoffCancelled_Unobserved(w) ==
  /\ pc[w] \in {"runPrompt", "send"}
  /\ IF pc[w] = "runPrompt"
     THEN run' = [run EXCEPT ![w].llm = Append(@, Failed("transport", ErrCanceled)),
                             ![w].runErr = ErrCanceled]
     ELSE run' = [run EXCEPT ![w].sent = Append(@, [k |-> run[w].k,
                                                    resp |-> Failed("transport", ErrCanceled),
                                                    method |-> run[w].method,
                                                    ctype |-> "application/json"]),
                             ![w].runErr = run[w].wrap \o ErrCanceled]
  /\ pc' = [pc EXCEPT ![w] = "cancelled"]
  /\ UNCHANGED <<now, jobs, hist, updates, tx, snap>>

(* The cycle's context is cancelled (signal, or the cycle deadline) while   *)
(* runPrompt or sendJSONWithRetry is between two requests: sleepWithContext *)
(* returns ctx.Err() from its ctx.Done() case, or, when its timer fired at  *)
(* the same moment and select took that case, the ctx.Err() test at the top *)
(* of the loop does, as it does before the first request of a send.  The    *)
(* step returns that error; the generic webhook wraps it.                   *)
BackoffCancelled(w) ==
  /\ pc[w] \in {"runPrompt", "send"}
  /\ run' = [run EXCEPT ![w].runErr = run[w].wrap \o ErrCanceled]
  /\ pc' = [pc EXCEPT ![w] = "cancelled"]
  /\ UNCHANGED <<now, jobs, hist, updates, tx, snap>>

(* processOnce after the step returned the cancellation error: deliver is   *)
(* skipped or has returned, insertHistory fails on the cancelled context,   *)
(* processOnce returns and the deferred tx.Rollback() runs; main goes back  *)
(* to its select.                                                           *)
CancelledCycleEnds(w) ==
  /\ pc[w] = "cancelled"
  /\ Abandon(w, "idle")

CycleNext ==
  \E w \in Workers :
    \/ BackoffCancelled(w)
    \/ CancelledCycleEnds(w)
    \/ LockNextJob(w)
    \/ RunPromptAttempt(w)
    \/ Deliver(w)
    \/ SendAttempt(w)
    \/ ComputeAndInsert(w)
    \/ UpdateAndCommit(w)

CycleSpec == CycleInit /\ [][CycleNext]_vars

(* ----------------------- chunk on its own ------------------------------- *)
(* a text of n characters whose period divides neither limit *)
Text(n) == SubSeq(Rep("abcdefg", n \div 7 + 1), 1, n)

(* lengths around the multiples of the two limits *)
ChunkLens ==
  {0, 1, 2, 5000, 12000}
  \cup {1900 * m + d : m \in 1..4, d \in {0 - 1, 0, 1}}
  \cup {4000 * m + d : m \in 1..3, d \in {0 - 1, 0, 1}}

(* every worker is about to call chunk(value, size), size being the limit *)
(* of the Discord webhook or of the Telegram bot API                        *)
ChunkInit ==
  /\ now = 0
  /\ jobs = [j \in JobIds |-> NoTx.row]
  /\ hist = [j \in JobIds |-> <<>>]
  /\ updates = [j \in JobIds |-> 0]
  /\ pc = [w \in Workers |-> "chunk"]
  /\ tx = [w \in Workers |-> NoTx]
  /\ \E n \in ChunkLens, size \in {1900, 4000} :
       run = [w \in Workers |-> [status |-> "", next |-> 0, value |-> Text(n),
                                 size |-> size, out |-> <<>>]]
  /\ snap = [w \in Workers |-> NoSnap]

ChunkCall(w) ==
  /\ pc[w] = "chunk"
  /\ run' = [run EXCEPT ![w].out = chunk(run[w].value, run[w].size)]
  /\ pc' = [pc EXCEPT ![w] = "chunked"]
  /\ UNCHANGED <<now, jobs, hist, updates, tx, snap>>

ChunkNext == \E w \in Workers : ChunkCall(w)

ChunkSpec == ChunkInit /\ [][ChunkNext]_vars

(* ------------------------------- claims -------------------------------- *)
Due(j) == WhereClause(jobs[j], now)
Idle(w) == pc[w] = "idle"
LastStatus(h) == h[Len(h)].status

(* The cycle of w ends at this step *)
CycleEnds(w) == tx[w].job # NoJob /\ tx'[w].job = NoJob
(* ... and w claims a job at this step *)
Claims(w) == tx[w].job = NoJob /\ tx'[w].job # NoJob

(* C1: at no time are two workers both between a successful claim of the   *)
(* same job and the end of their cycle for it.                             *)
C1_OneHolderPerJob == \A j \in JobIds : Cardinality(Holders(j)) <= 1

(* a worker holds a job the committed table still shows as due while       *)
(* another worker is idle and polling                                      *)
C1_Witness ==
  \E w, v \in Workers : w # v /\ tx[w].job # NoJob /\ Due(tx[w].job) /\ Idle(v)

(* C2: with exactly one due, enabled, unlocked job in the store, the first  *)
(* claim attempt returns it, and while its cycle is in flight every other   *)
(* attempt returns no row, without waiting for that cycle to end.           *)
C2_ExactlyOneClaimSucceeds ==
  \A j \in JobIds :
    (Due(j) /\ \A k \in JobIds \ {j} : ~Due(k)) =>
      /\ Cardinality(Holders(j)) <= 1
      /\ \A w \in Workers :
           Idle(w) =>
             /\ ENABLED LockNextJob(w)
             /\ lockQuery(jobs, now, HeldByOthers(w)) =
                  IF Holders(j) = {} THEN {j} ELSE {}

C2_Witness ==
  \E j \in JobIds, w, v \in Workers :
    /\ Due(j) /\ \A k \in JobIds \ {j} : ~Due(k)
    /\ Holders(j) = {w} /\ v # w /\ Idle(v)

(* C3: a job is claimed only if at claim time it was enabled, its           *)
(* next_run_at was not after now, and its locked_at was null or more than   *)
(* the staleness window before now.                                         *)
C3_ClaimedOnlyIfDue ==
  \A w \in Workers :
    tx[w].job # NoJob =>
      /\ snap[w].row.enabled = TRUE
      /\ snap[w].row.next_run_at <= snap[w].at
      /\ \/ ~snap[w].row.locked_at.Valid
         \/ snap[w].row.locked_at.V < snap[w].at - 10 * UnitsPerMinute

(* a claim is in flight while the table also holds a disabled job whose    *)
(* next_run_at has passed                                                   *)
C3_Witness ==
  \E w \in Workers, k \in JobIds :
    /\ tx[w].job # NoJob /\ k # tx[w].job
    /\ ~jobs[k].enabled /\ jobs[k].next_run_at <= now

(* C4: whenever a claim returns job J, no claimable job that is not held by *)
(* another worker's cycle has a next_run_at strictly earlier than J's.      *)
C4_OldestDueFirst ==
  [][\A w \in Workers :
       Claims(w) =>
         \A k \in JobIds \ HeldByOthers(w) :
           Due(k) => jobs[tx'[w].job].next_run_at <= jobs[k].next_run_at]_vars

(* a job was just claimed while another claimable, unheld job is due later *)
C4_Witness ==
  \E w \in Workers, k \in JobIds :
    /\ tx[w].job # NoJob /\ snap[w].at = now
    /\ k # tx[w].job /\ Holders(k) = {} /\ Due(k)
    /\ snap[w].row.next_run_at < jobs[k].next_run_at

(* C5: a due, enabled job whose locked_at is 11 minutes before now is       *)
(* returned by a claim that finds no other candidate; one whose locked_at   *)
(* is 9 or exactly 10 minutes before now is returned by no claim.           *)
C5_StalenessReclaim ==
  \A j \in JobIds :
    (jobs[j].enabled /\ jobs[j].next_run_at <= now /\ jobs[j].locked_at.Valid) =>
      /\ jobs[j].locked_at.V = now - 11 * UnitsPerMinute =>
           lockQuery([k \in {j} |-> jobs[k]], now, {}) = {j}
      /\ jobs[j].locked_at.V \in {now - 9 * UnitsPerMinute, now - 10 * UnitsPerMinute} =>
           \A w \in Workers : j \notin lockQuery(jobs, now, HeldByOthers(w))

(* the 11-minute job has just been claimed while the 9-minute job is due   *)
C5_Witness ==
  \E w \in Workers, k \in JobIds :
    /\ tx[w].job # NoJob /\ snap[w].at = now
    /\ snap[w].row.locked_at.Valid
    /\ snap[w].row.locked_at.V = now - 11 * UnitsPerMinute
    /\ jobs[k].enabled /\ jobs[k].next_run_at <= now /\ jobs[k].locked_at.Valid
    /\ jobs[k].locked_at.V = now - 9 * UnitsPerMinute

(* C6, as stated: every cycle that claims a job and is not ended by a crash *)
(* of its worker ends with exactly one more RunHistory row for the job and  *)
(* the newly computed next_run_at.                                          *)
C6_EveryCycleRecorded ==
  [][\A w \in Workers :
       (CycleEnds(w) /\ ~Crash(w)) =>
         /\ Len(hist'[tx[w].job]) = snap[w].nhist + 1
         /\ jobs'[tx[w].job].next_run_at = run[w].next]_vars

(* C6, amended: every cycle that claims a job and reaches its commit (it is *)
(* not cancelled and does not crash first) commits exactly one more         *)
(* RunHistory row for the job, of status success or fail, and the newly     *)
(* computed next_run_at; every other cycle leaves no row and no update.     *)
C6_CommittedCycleRecorded ==
  [][\A w \in Workers :
       CycleEnds(w) =>
         IF Shutdown(w) \/ DeadlineExceeded(w) \/ Crash(w)
         THEN /\ Len(hist'[tx[w].job]) = snap[w].nhist
              /\ jobs'[tx[w].job].next_run_at = snap[w].row.next_run_at
         ELSE /\ Len(hist'[tx[w].job]) = snap[w].nhist + 1
              /\ LastStatus(hist'[tx[w].job]) \in {"success", "fail"}
              /\ LastStatus(hist'[tx[w].job]) = run[w].status
              /\ jobs'[tx[w].job].next_run_at = run[w].next]_vars

(* a cycle whose schedule computation failed has been committed as failed, *)
(* with the fallback next_run_at                                            *)
C6_Witness ==
  \E j \in JobIds :
    /\ Len(hist[j]) = 1 /\ hist[j][1].status = "fail"
    /\ ~computeNextRun(jobs[j], now).ok
    /\ jobs[j].next_run_at >= FallbackDelay

(* C7: for every job the number of committed RunHistory rows equals the     *)
(* number of committed finalize updates of its row.                         *)
C7_FinalizeAtomic == \A j \in JobIds : Len(hist[j]) = updates[j]

(* a cycle has inserted its history row and not yet updated the job row,   *)
(* while an earlier cycle is already committed                              *)
C7_Witness ==
  \E w \in Workers, j \in JobIds :
    pc[w] = "inserted" /\ Len(tx[w].hist) = 1 /\ tx[w].upd = 0 /\ Len(hist[j]) >= 1

(* C8, as stated: after a cycle is aborted between claim and finalize by a  *)
(* crash or the cycle deadline, the job is claimable by no worker before    *)
(* the staleness window measured from the claim has expired.                *)
C8_AbortedJobStaysLocked ==
  [][\A w \in Workers :
       (CycleEnds(w) /\ (Crash(w) \/ DeadlineExceeded(w))) =>
         (now' <= snap[w].at + StaleWindow => ~WhereClause(jobs'[tx[w].job], now'))]_vars

(* C9: when a cycle is cancelled between claim and commit, by the shutdown  *)
(* signal or the cycle deadline, the store is as the claim found it: the    *)
(* job's row is unchanged and no RunHistory row is added.                   *)
C9_CancelRollsBack ==
  [][\A w \in Workers :
       (CycleEnds(w) /\ (Shutdown(w) \/ DeadlineExceeded(w))) =>
         /\ jobs'[tx[w].job] = snap[w].row
         /\ Len(hist'[tx[w].job]) = snap[w].nhist
         /\ updates'[tx[w].job] = updates[tx[w].job]]_vars

(* a cycle holds an uncommitted history row when its deadline has passed   *)
C9_Witness ==
  \E w \in Workers :
    pc[w] = "inserted" /\ Len(tx[w].hist) = 1 /\ now >= snap[w].at + CycleTimeout

(* C10: a committed failed cycle adds one to fail_count and disables the    *)
(* job exactly when the new count is at least 10; a committed successful    *)
(* cycle sets fail_count to 0 and leaves enabled as it was.                 *)
C10_FailureEscalation ==
  [][\A j \in JobIds :
       updates'[j] = updates[j] + 1 =>
         /\ Len(hist'[j]) > 0
         /\ LastStatus(hist'[j]) = "fail" =>
              /\ jobs'[j].fail_count = jobs[j].fail_count + 1
              /\ jobs'[j].enabled = FALSE <=> jobs[j].fail_count + 1 >= 10
         /\ LastStatus(hist'[j]) = "success" =>
              /\ jobs'[j].fail_count = 0
              /\ jobs'[j].enabled = jobs[j].enabled]_vars

(* a job at fail_count 9 has failed once more and is disabled, while the   *)
(* other job, at 8, has failed and is still enabled                         *)
C10_Witness ==
  \E j, k \in JobIds :
    /\ jobs[j].fail_count = 10 /\ ~jobs[j].enabled /\ LastStatus(hist[j]) = "fail"
    /\ jobs[k].fail_count = 9 /\ jobs[k].enabled /\ Len(hist[k]) = 1

(* The number of "fail" rows at the end of a job's history *)
RECURSIVE TrailingFails(_)
TrailingFails(h) ==
  IF Len(h) = 0 \/ h[Len(h)].status # "fail" THEN 0
  ELSE 1 + TrailingFails(SubSeq(h, 1, Len(h) - 1))

(* C11: from fail_count 0, the job's fail_count is the number of failed     *)
(* cycles since its last success (a success restarts it at 0); through 9    *)
(* consecutive failures it stays enabled, is scheduled no later than its    *)
(* next minute and is what an idle worker's claim returns when it is due;   *)
(* with the 10th consecutive failure it is disabled, and a disabled job is  *)
(* held by no worker and returned by no claim.                              *)
C11_DisabledAtTenthFailure ==
  LET j == TheJob
      k == TrailingFails(hist[j])
      free == Holders(j) = {}
  IN /\ jobs[j].fail_count = k
     /\ jobs[j].enabled <=> k < 10
     /\ jobs[j].enabled => jobs[j].next_run_at <= now + UnitsPerMinute
     /\ (jobs[j].enabled /\ jobs[j].next_run_at <= now /\ free) =>
          \A w \in Workers : Idle(w) => lockQuery(jobs, now, HeldByOthers(w)) = {j}
     /\ ~jobs[j].enabled =>
          /\ free
          /\ \A w \in Workers : lockQuery(jobs, now, HeldByOthers(w)) = {}

(* a success, then ten failures in a row: the job is disabled and, its      *)
(* next_run_at passed, no worker holds it                                   *)
C11_Witness ==
  LET j == TheJob
  IN /\ Len(hist[j]) = 11 /\ hist[j][1].status = "success"
     /\ TrailingFails(hist[j]) = 10
     /\ ~jobs[j].enabled /\ jobs[j].next_run_at <= now

(* A worker runs and delivers job j at this step; a cycle of j commits *)
Executes(j) == \E w \in Workers : tx[w].job = j /\ RunAndInsert(w)
Commits(j) == updates'[j] = updates[j] + 1

(* C12, as stated: no job is executed and delivered again and again without *)
(* committed cycle outcomes in between: a job that is executed infinitely   *)
(* often has a cycle outcome committed infinitely often.                    *)
C12_NoEndlessReexecution ==
  \A j \in JobIds : []<><<Executes(j)>>_vars => []<><<Commits(j)>>_vars

(* Worker w commits its cycle at this step *)
CommitsCycle(w) == pc[w] = "inserted" /\ UpdateAndCommit(w)

(* The first 09:00 strictly after instant t *)
Next0900After(t) ==
  LET today == (t \div DayUnits) * DayUnits + 9 * 60 * UnitsPerMinute
  IN IF t < today THEN today ELSE today + DayUnits

Daily0900(row) == row.schedule_type = "daily" /\ row.schedule_time = T0900

(* What a committed successful cycle of w leaves, but for next_run_at *)
SuccessCommitted(w) ==
  LET j == tx[w].job
  IN /\ Len(hist'[j]) = snap[w].nhist + 1
     /\ hist'[j][Len(hist'[j])] =
          [status |-> "success", output_preview |-> SomeStr("ok"),
           error_message |-> NullStr]
     /\ jobs'[j].fail_count = 0
     /\ ~jobs'[j].locked_at.Valid

Computed(w) == pc[w] = "inserted"

(* C16: for a daily job with a valid time T, the computed next run is       *)
(* today's T when now is strictly before it and today's T + 24 h otherwise, *)
(* now = today's T included, and is strictly after now.                     *)
C16_DailyNextRun ==
  \A w \in Workers :
    LET row == tx[w].row
        t == snap[w].at
        p == parseHHMM(row.schedule_time)
        todayT == (t \div DayUnits) * DayUnits + p.h * 60 * UnitsPerMinute
                    + p.m * UnitsPerMinute
    IN (Computed(w) /\ row.schedule_type = "daily" /\ row.schedule_time \in SchedTimes) =>
         /\ p.ok
         /\ run[w].next = IF t < todayT THEN todayT ELSE todayT + 24 * 60 * UnitsPerMinute
         /\ run[w].next > t

(* a daily schedule computed at its own time of day gives the same time     *)
(* tomorrow                                                                  *)
C16_Witness ==
  \E w \in Workers :
    /\ Computed(w) /\ tx[w].row.schedule_type = "daily"
    /\ tx[w].row.schedule_time = T2359
    /\ snap[w].at % DayUnits = (23 * 60 + 59) * UnitsPerMinute
    /\ run[w].next = snap[w].at + DayUnits

(* C17: for a weekly job with target day 0..6 and a valid time T, the       *)
(* computed next run is on the target weekday at T, strictly after now and  *)
(* at most 7 days after now; when the target is today and T is not after    *)
(* now it is today's T + 7 days.                                            *)
C17_WeeklyNextRun ==
  \A w \in Workers :
    LET row == tx[w].row
        t == snap[w].at
        p == parseHHMM(row.schedule_time)
        d == row.schedule_day_of_week
        tOfDay == p.h * 60 * UnitsPerMinute + p.m * UnitsPerMinute
        todayT == (t \div DayUnits) * DayUnits + tOfDay
    IN (/\ Computed(w) /\ row.schedule_type = "weekly"
        /\ row.schedule_time \in SchedTimes /\ d.Valid /\ d.V \in 0..6) =>
         /\ (run[w].next \div DayUnits) % 7 = d.V
         /\ run[w].next % DayUnits = tOfDay
         /\ run[w].next > t
         /\ run[w].next <= t + 7 * DayUnits
         /\ (d.V = (t \div DayUnits) % 7 /\ todayT <= t) =>
              run[w].next = todayT + 7 * DayUnits

(* a weekly schedule computed on its own weekday, half a minute after its   *)
(* time, gives that time a week later                                       *)
C17_Witness ==
  \E w \in Workers :
    /\ Computed(w) /\ tx[w].row.schedule_type = "weekly"
    /\ tx[w].row.schedule_time = T0900
    /\ tx[w].row.schedule_day_of_week = SomeInt(Weekday(snap[w].at))
    /\ snap[w].at % DayUnits = 9 * 60 * UnitsPerMinute + 1
    /\ run[w].next = snap[w].at - 1 + 7 * DayUnits

(* C18, as stated: whatever schedule fields a claimed row holds, the        *)
(* next_run_at a committed finalize writes is strictly after the instant at *)
(* which the cycle computed it.                                             *)
C18_CommittedNextRunInFuture ==
  [][\A w \in Workers :
       CommitsCycle(w) => jobs'[tx[w].job].next_run_at > snap[w].at]_vars

(* The ways the schedule fields of a row can be broken *)
ScheduleBroken(row) ==
  \/ row.schedule_type \notin {"daily", "weekly", "cron"}
  \/ row.schedule_type = "cron" /\ ~row.schedule_cron.Valid
  \/ row.schedule_type = "cron" /\ row.schedule_cron = SomeStr("bad")
  \/ row.schedule_type = "weekly" /\ ~row.schedule_day_of_week.Valid
  \/ row.schedule_type \in {"daily", "weekly"} /\ row.schedule_time \in SchedTimesBad

(* "schedule calc error" begins message m *)
IsScheduleError(m) ==
  m.Valid /\ Len(m.V) >= 19 /\ SubSeq(m.V, 1, 19) = "schedule calc error"

(* C19: a cycle whose row has a rejected or missing cron expression, no     *)
(* weekly day_of_week, a malformed HH:mm or an unknown schedule type takes  *)
(* the computation's error as its own and goes on: it inserts a fail row    *)
(* with the schedule error and commits it with fail_count + 1 and           *)
(* next_run_at = now + 10 minutes.                                          *)
C19_BrokenScheduleFallsBack ==
  [][\A w \in Workers :
       ScheduleBroken(snap[w].row) =>
         /\ (pc[w] = "claimed" /\ RunAndInsert(w)) =>
              /\ run'[w] = [status |-> "fail", next |-> now + 10 * UnitsPerMinute]
              /\ Len(tx'[w].hist) = 1
              /\ IsScheduleError(tx'[w].hist[1].error_message)
         /\ CommitsCycle(w) =>
              LET j == tx[w].job
              IN /\ Len(hist'[j]) = snap[w].nhist + 1
                 /\ LastStatus(hist'[j]) = "fail"
                 /\ IsScheduleError(hist'[j][Len(hist'[j])].error_message)
                 /\ jobs'[j].fail_count = snap[w].row.fail_count + 1
                 /\ jobs'[j].next_run_at = snap[w].at + 10 * UnitsPerMinute]_vars

(* a weekly job without day_of_week has its failed cycle committed, ten     *)
(* minutes from now as next_run_at                                          *)
C19_Witness ==
  LET j == TheJob
  IN /\ jobs[j].schedule_type = "weekly" /\ ~jobs[j].schedule_day_of_week.Valid
     /\ Len(hist[j]) = 1 /\ IsScheduleError(hist[j][1].error_message)
     /\ jobs[j].fail_count = 1
     /\ jobs[j].next_run_at = now + 10 * UnitsPerMinute

(* runPrompt has made a request in the cycle of w / has returned *)
Executing(w) == pc[w] = "runPrompt"
Executed(w) == pc[w] \in {"deliver", "send", "compute", "inserted"} /\ run[w] # NoRun
Retryable(r) == r.kind # "http" \/ r.status \in {408, 429} \/ r.status >= 500
GoodAnswer(r) ==
  r.kind = "http" /\ r.status \in 200..299 /\ r.json /\ TrimSpace(r.text) # ""

(* C20: one run of the execution step makes at most 2 requests; a request   *)
(* is followed by another only if it was the first and failed at transport  *)
(* level or was answered 429, 408 or 5xx; any other answer ends the run:    *)
(* a good one with its output, the rest (other 4xx, unparsable body, blank  *)
(* output, or a second failure) with an error and no output.                *)
C20_ExecutionRetryEnvelope ==
  \A w \in Workers :
    (Executing(w) \/ Executed(w)) =>
      LET llm == run[w].llm
          last == llm[Len(llm)]
      IN /\ Len(llm) \in 1..2
         /\ \A i \in 1..(Len(llm) - 1) : Retryable(llm[i])
         /\ Executing(w) => (Len(llm) = 1 /\ Retryable(last))
         /\ (Executed(w) /\ Len(llm) = 1 /\ ~GoodAnswer(last)) => ~Retryable(last)
         /\ Executed(w) =>
              IF GoodAnswer(last)
              THEN run[w].output = last.text /\ (pc[w] = "deliver" => run[w].runErr = "")
              ELSE /\ run[w].output = "" /\ run[w].runErr # ""
                   /\ pc[w] \in {"compute", "inserted"} /\ run[w].sent = <<>>

(* a first request answered 500, a second answered with an output *)
C20_Witness ==
  \E w \in Workers :
    /\ pc[w] = "deliver"
    /\ Len(run[w].llm) = 2
    /\ run[w].llm[1] = Http(500, FALSE, "oops")
    /\ run[w].llm[2] = Http(200, TRUE, "ok")
    /\ run[w].output = "ok"

(* the exchanges of the cycle of w that carried its k-th text *)
SentFor(w, k) == SelectSeq(run[w].sent, LAMBDA e : e.k = k)
(* deliver got to a send, and every answer to the text it sent last was 500 *)
AllAnswered500(w) ==
  /\ run[w].sent # <<>>
  /\ \A i \in 1..Len(run[w].sent) :
       run[w].sent[i].k = run[w].k =>
         (run[w].sent[i].resp.kind = "http" /\ run[w].sent[i].resp.status = 500)
Error500(row) ==
  (IF row.channel_type = "webhook" THEN "webhook delivery error: " ELSE "")
    \o "channel request failed 500: oops"

(* C14: a cycle whose delivery endpoint answered 500 to every attempt for a *)
(* chunk made exactly 3 requests for that chunk and none for a later one,   *)
(* and commits one fail row (carrying the delivery error when the schedule  *)
(* is computable), fail_count + 1, locked_at cleared, and for a daily 09:00 *)
(* job the next 09:00, as a successful cycle does.                          *)
C14_DeliveryRetryExhaustion ==
  [][\A w \in Workers :
       (CommitsCycle(w) /\ AllAnswered500(w)) =>
         LET j == tx[w].job
             h == hist'[j]
         IN /\ Len(SentFor(w, run[w].k)) = 3
            /\ run[w].sent[Len(run[w].sent)].k = run[w].k
            /\ run[w].k <= Len(run[w].plan)
            /\ Len(h) = Len(hist[j]) + 1
            /\ h[Len(h)].status = "fail"
            /\ h[Len(h)].output_preview = NullStr
            /\ jobs'[j].fail_count = snap[w].row.fail_count + 1
            /\ jobs'[j].locked_at = NullTime
            /\ Daily0900(snap[w].row) =>
                 /\ h[Len(h)].error_message = SomeStr(Error500(snap[w].row))
                 /\ jobs'[j].next_run_at = Next0900After(snap[w].at)
     ]_vars

(* three requests answered 500, the fail row written in the transaction,   *)
(* the cycle about to run updateFailure and commit                          *)
C14_Witness ==
  \E w \in Workers :
    /\ pc[w] = "inserted"
    /\ AllAnswered500(w)
    /\ Len(run[w].sent) = 3
    /\ run[w].status = "fail"
    /\ tx[w].hist[1].error_message = SomeStr("channel request failed 500: oops")
    /\ now = 9 * 60 * UnitsPerMinute
    /\ run[w].next = DayUnits + 9 * 60 * UnitsPerMinute

SuccessResponse(r) == r.kind = "http" /\ r.status \in 200..299
(* a step commits a new RunHistory row with status success for job j *)
CommitsSuccessRow(j) ==
  Len(hist'[j]) > Len(hist[j]) /\ LastStatus(hist'[j]) = "success"
(* the cycle of w claimed j when it was due, its execution step returned a  *)
(* non-blank output, and its schedule is one that can be computed           *)
ClaimedAndExecuted(w, j) ==
  /\ pc[w] = "inserted" /\ tx[w].job = j
  /\ WhereClause(snap[w].row, snap[w].at)
  /\ GoodAnswer(run[w].llm[Len(run[w].llm)])
  /\ TrimSpace(run[w].output) # ""
  /\ ~ScheduleBroken(snap[w].row)
(* deliver of the cycle of w has returned *)
DeliveryEnded(w) ==
  LET sent == run[w].sent
      last == sent[Len(sent)]
  IN \/ run[w].output = ""
     \/ run[w].plan = <<>>
     \/ /\ sent # <<>>
        /\ IF SuccessResponse(last.resp) THEN last.k = Len(run[w].plan)
           ELSE ~Retryable(last.resp) \/ Len(SentFor(w, last.k)) = 3

(* C15: a success row is committed only by a cycle that claimed    *)
(* the job, got a non-empty output, delivered every chunk in order (the     *)
(* last request for each chunk got a success response, the earlier ones for *)
(* it failed in a retryable way) and computed the schedule; a request goes  *)
(* to the channel only after the execution step returned an output, and the *)
(* history row is written only after deliver has returned.                  *)
C15_SuccessOnlyAfterDelivery ==
  [][/\ \A j \in JobIds :
          CommitsSuccessRow(j) =>
            \E w \in Workers :
              /\ ClaimedAndExecuted(w, j)
              /\ run[w].plan # <<>>
              /\ \A k \in 1..Len(run[w].plan) :
                   LET reqs == SentFor(w, k)
                   IN /\ reqs # <<>>
                      /\ SuccessResponse(reqs[Len(reqs)].resp)
                      /\ \A i \in 1..(Len(reqs) - 1) :
                           ~SuccessResponse(reqs[i].resp) /\ Retryable(reqs[i].resp)
              /\ \A i \in 1..(Len(run[w].sent) - 1) :
                   run[w].sent[i].k <= run[w].sent[i + 1].k
     /\ \A w \in Workers :
          /\ (pc[w] \in {"deliver", "send"} \/ (Executed(w) /\ run[w].sent # <<>>)) =>
               (GoodAnswer(run[w].llm[Len(run[w].llm)]) /\ TrimSpace(run[w].output) # "")
          /\ (pc[w] = "inserted" \/ tx[w].hist # <<>>) => DeliveryEnded(w)
    ]_vars

(* the execution service answered 2xx with a parsable body whose            *)
(* output_text is empty or only white space                                 *)
BlankAnswer(r) ==
  r.kind = "http" /\ r.status \in 200..299 /\ r.json /\ TrimSpace(r.text) = ""

(* C21: deliver runs, and a request goes to the channel, only in a cycle    *)
(* whose execution step returned an output that is non-empty after          *)
(* trimming; a cycle whose execution call ended with a blank output sends   *)
(* nothing and commits one fail row and fail_count + 1.                     *)
C21_DeliverNeverSeesBlank ==
  [][\A w \in Workers :
       /\ (pc[w] \in {"deliver", "send"} \/ (Executed(w) /\ run[w].sent # <<>>)) =>
            (run[w].output # "" /\ TrimSpace(run[w].output) # "")
       /\ (Executed(w) /\ BlankAnswer(run[w].llm[Len(run[w].llm)])) =>
            /\ pc[w] \in {"compute", "inserted"}
            /\ run[w].sent = <<>> /\ run[w].plan = <<>>
            /\ run[w].runErr # ""
            /\ CommitsCycle(w) =>
                 LET j == tx[w].job
                 IN /\ Len(hist'[j]) = Len(hist[j]) + 1
                    /\ LastStatus(hist'[j]) = "fail"
                    /\ hist'[j][Len(hist'[j])].output_preview = NullStr
                    /\ jobs'[j].fail_count = snap[w].row.fail_count + 1
                    /\ Daily0900(snap[w].row) =>
                         hist'[j][Len(hist'[j])].error_message = SomeStr("empty llm output")
     ]_vars

(* a blank output after a retried request, recorded as a failure and about  *)
(* to be committed                                                          *)
C21_Witness ==
  \E w \in Workers :
    /\ pc[w] = "inserted"
    /\ Len(run[w].llm) = 2
    /\ run[w].llm[2] = Http(200, TRUE, " \n\t")
    /\ run[w].sent = <<>>
    /\ tx[w].hist[1].status = "fail"
    /\ tx[w].hist[1].error_message = SomeStr("empty llm output")

(* the error a send reports when the answer r ended it *)
SendError(r) ==
  IF r.kind = "http"
  THEN "channel request failed " \o Itoa(r.status) \o ": " \o r.text
  ELSE r.text

(* C22: the requests of one send stop at the first 2xx response, which      *)
(* makes the send a success; a request is followed by another, up to 3 in   *)
(* all, only if it failed at transport level or was answered 429, 408 or    *)
(* 5xx; any other status outside 2xx (1xx, 3xx, other 4xx) ends the send at *)
(* once as a failure whose error carries the response body.                 *)
C22_DeliveryClassification ==
  \A w \in Workers :
    (pc[w] \in {"send", "compute", "inserted"} /\ run[w].plan # <<>>) =>
      \A k \in 1..run[w].k :
        LET reqs == SentFor(w, k)
            last == reqs[Len(reqs)].resp
            ended == k < run[w].k \/ pc[w] # "send"
        IN /\ Len(reqs) <= 3
           /\ \A i \in 1..(Len(reqs) - 1) :
                ~SuccessResponse(reqs[i].resp) /\ Retryable(reqs[i].resp)
           /\ (~ended /\ reqs # <<>>) =>
                (~SuccessResponse(last) /\ Retryable(last) /\ Len(reqs) < 3)
           /\ ended =>
                /\ reqs # <<>>
                /\ IF SuccessResponse(last)
                   THEN k < run[w].k \/ k = Len(run[w].plan)
                   ELSE /\ k = run[w].k
                        /\ Retryable(last) => Len(reqs) = 3
                        /\ pc[w] = "compute" =>
                             run[w].runErr = run[w].wrap \o SendError(last)
                /\ (pc[w] = "compute" /\ k = run[w].k /\ SuccessResponse(last)) =>
                     run[w].runErr = ""

(* w's retry loop is sleeping between two requests *)
Sleeping(w) == pc[w] = "runPrompt" \/ (pc[w] = "send" /\ run[w].attempt > 1)
(* the requests the cycle of w has made so far *)
Requests(w) == Len(run[w].llm) + Len(run[w].sent)

(* C23: when the cycle's context is cancelled while a retry loop sleeps     *)
(* between attempts, the step returns the cancellation error at once,       *)
(* without another request, and the cycle makes no request and commits      *)
(* nothing from then on.                                                    *)
C23_BackoffObservesCancel ==
  [][\A w \in Workers :
       /\ (Sleeping(w) /\ pc'[w] = "cancelled") =>
            /\ run'[w].llm = run[w].llm /\ run'[w].sent = run[w].sent
            /\ run'[w].runErr \in {ErrCanceled, "webhook delivery error: " \o ErrCanceled}
            /\ run'[w].output = "" \/ run[w].sent # <<>>
       /\ pc[w] = "cancelled" =>
            /\ pc'[w] \in {"cancelled", "idle"}
            /\ run'[w] \in {run[w], NoRun}
            /\ jobs' = jobs /\ hist' = hist /\ updates' = updates
     ]_vars

(* cancelled during the backoff after a 500 to the first delivery request   *)
(* of the second chunk                                                      *)
C23_Witness ==
  \E w \in Workers :
    /\ pc[w] = "cancelled"
    /\ run[w].k = 2 /\ run[w].attempt = 2
    /\ Len(run[w].sent) = 2
    /\ run[w].sent[2].resp = Http(500, FALSE, "oops")
    /\ run[w].runErr = ErrCanceled

RECURSIVE Concat(_)
Concat(texts) == IF texts = <<>> THEN "" ELSE Head(texts) \o Concat(Tail(texts))
CeilDiv(n, d) == (n + d - 1) \div d
(* the texts deliver sends for a job on the given channel whose message,    *)
(* head and blank line included, has n characters                           *)
PlanFor(channel, n) ==
  LET c == CHOOSE x \in Channels :
             x.channel_type = channel /\ deliverPlan(x @@ [name |-> "digest"], "", 0).err = ""
      head == "[digest] 2023-01-01 00:00"
  IN deliverPlan(c @@ [name |-> "digest"], Text(n - Len(head) - 2), 0).texts

(* C24: chunk(value, L) returns texts of at most L characters each whose    *)
(* concatenation in order is value, ceil(len / L) of them and 1 for the     *)
(* empty text; a message of 5000 characters goes out as 3 texts to a        *)
(* Discord webhook and as 2 to the Telegram bot API.                        *)
C24_Chunking ==
  /\ \A w \in Workers :
       pc[w] = "chunked" =>
         LET value == run[w].value
             L == run[w].size
             out == run[w].out
         IN /\ \A i \in 1..Len(out) : Len(out[i]) <= L
            /\ Concat(out) = value
            /\ Len(out) = IF Len(value) = 0 THEN 1 ELSE CeilDiv(Len(value), L)
  /\ (\E w \in Workers : pc[w] = "chunked") =>
       /\ Len(Concat(PlanFor("discord", 5000))) = 5000
       /\ Len(PlanFor("discord", 5000)) = 3
       /\ Len(PlanFor("telegram", 5000)) = 2

(* 5000 characters cut at 1900: 1900, 1900 and 1200 *)
C24_Witness ==
  \E w \in Workers :
    /\ pc[w] = "chunked"
    /\ Len(run[w].value) = 5000 /\ run[w].size = 1900
    /\ Len(run[w].out) = 3
    /\ Len(run[w].out[3]) = 1200

Chunked(row) == row.channel_type \in {"discord", "telegram"}

(* C25: on Discord and Telegram the chunks go out in message order, each    *)
(* to its end before the next: the first request carries chunk 1, a request *)
(* for chunk k + 1 follows only a success response to chunk k, a chunk that *)
(* got its success response is not sent again, and once a chunk has failed  *)
(* for good nothing more is sent and the cycle records one failure.         *)
C25_ChunkOrder ==
  \A w \in Workers :
    (pc[w] \in {"send", "compute", "inserted", "cancelled"}
       /\ run[w].sent # <<>> /\ Chunked(tx[w].row)) =>
      LET sent == run[w].sent
          n == Len(sent)
      IN /\ sent[1].k = 1
         /\ \A i \in 1..(n - 1) :
              /\ sent[i + 1].k \in {sent[i].k, sent[i].k + 1}
              /\ sent[i + 1].k = sent[i].k + 1 <=> SuccessResponse(sent[i].resp)
         /\ sent[n].k <= Len(run[w].plan)
         /\ Concat(run[w].plan) =
              "[digest] " \o FormatTime(now) \o "\n\n" \o run[w].output
         /\ (pc[w] \in {"compute", "inserted"} /\ ~SuccessResponse(sent[n].resp)) =>
              /\ run[w].runErr # ""
              /\ pc[w] = "inserted" =>
                   (Len(tx[w].hist) = 1 /\ tx[w].hist[1].status = "fail")
         /\ (pc[w] \in {"compute", "inserted"} /\ SuccessResponse(sent[n].resp)) =>
              sent[n].k = Len(run[w].plan)

(* the decrypted settings of a generic-webhook row *)
Hook(row) == row.channel_config.configEnc.plain
NotJSONText(text) == text = "{not json"
(* a generic webhook whose settings decrypt and parse, with a url, but      *)
(* whose headers text or payload template is not JSON                       *)
BadHookJSON(row) ==
  /\ row.channel_type = "webhook"
  /\ row.channel_config.configEnc.authentic /\ Hook(row).json
  /\ TrimSpace(Hook(row).url) # ""
  /\ NotJSONText(Hook(row).headers) \/ NotJSONText(Hook(row).payload)
StartsWith(text, prefix) ==
  Len(text) >= Len(prefix) /\ SubSeq(text, 1, Len(prefix)) = prefix

(* C26: a cycle of a generic-webhook job whose headers text or payload      *)
(* template is not valid JSON sends no request at all: deliver returns the  *)
(* configuration error at once, and the cycle commits one fail row and      *)
(* fail_count + 1.                                                          *)
C26_WebhookConfigFailure ==
  [][\A w \in Workers :
       (tx[w].job # NoJob /\ BadHookJSON(tx[w].row)) =>
         /\ pc[w] # "send" /\ pc'[w] # "send"
         /\ pc[w] \in {"compute", "inserted", "cancelled"} =>
              /\ run[w].sent = <<>> /\ run[w].plan = <<>>
              /\ (pc[w] = "compute" /\ run[w].output # "") =>
                   \/ StartsWith(run[w].runErr, "invalid webhook headers json: ")
                   \/ StartsWith(run[w].runErr, "invalid webhook payload json: ")
         /\ CommitsCycle(w) =>
              LET j == tx[w].job
              IN /\ Len(hist'[j]) = Len(hist[j]) + 1
                 /\ LastStatus(hist'[j]) = "fail"
                 /\ hist'[j][Len(hist'[j])].error_message.Valid
                 /\ jobs'[j].fail_count = snap[w].row.fail_count + 1
                 /\ jobs'[j].locked_at = NullTime
     ]_vars

(* the execution succeeded, the payload template does not parse, the fail   *)
(* row is written and about to be committed                                 *)
C26_Witness ==
  \E w \in Workers :
    /\ pc[w] = "inserted"
    /\ BadHookJSON(tx[w].row) /\ NotJSONText(Hook(tx[w].row).payload)
    /\ run[w].output = "ok"
    /\ run[w].sent = <<>>
    /\ tx[w].hist[1].status = "fail"
    /\ StartsWith(tx[w].hist[1].error_message.V, "invalid webhook payload json: ")

(* the Content-Type the owner of a generic webhook put in its headers text, *)
(* under whatever spelling of the header name; "" when there is none        *)
CallerContentType(row) ==
  IF Hook(row).headers \in {"{\"Content-Type\":\"text/plain\"}",
                            "{\"content-type\":\"text/plain\"}"}
  THEN "text/plain" ELSE ""

(* C27: a generic-webhook delivery is one send whatever the length of the   *)
(* message; each of its requests uses POST when the configured method is    *)
(* unset or blank (and the configured method in upper case otherwise), and  *)
(* carries the caller's Content-Type when the headers text sets one and     *)
(* application/json exactly when it sets none.                              *)
C27_WebhookRequestShape ==
  \A w \in Workers :
    (pc[w] \in {"send", "compute", "inserted", "cancelled"}
       /\ tx[w].row.channel_type = "webhook" /\ run[w].plan # <<>>) =>
      /\ Len(run[w].plan) = 1
      /\ Len(run[w].sent) <= 3
      /\ \A i \in 1..Len(run[w].sent) :
           LET req == run[w].sent[i]
               method == Hook(tx[w].row).method
           IN /\ req.k = 1
              /\ TrimSpace(method) = "" => req.method = "POST"
              /\ method = " put " => req.method = "PUT"
              /\ method = "get" => req.method = "GET"
              /\ req.ctype = IF CallerContentType(tx[w].row) = ""
                             THEN "application/json"
                             ELSE CallerContentType(tx[w].row)

(* the envelope does not decrypt, or decrypts to a blank value *)
BadSecret(e) ==
  \/ e.parts # 3 \/ ~e.base64 \/ ~e.nonce \/ ~e.authentic
  \/ e.plain \in {"", " "}
(* a secret that deliver needs for the channel of the row is bad *)
SecretFails(row) ==
  LET cfg == row.channel_config
  IN CASE row.channel_type = "discord" -> BadSecret(cfg.webhookUrlEnc)
       [] row.channel_type = "telegram" ->
            BadSecret(cfg.botTokenEnc) \/ BadSecret(cfg.chatIdEnc)
       [] OTHER ->
            \/ cfg.configEnc.parts # 3 \/ ~cfg.configEnc.base64
            \/ ~cfg.configEnc.nonce \/ ~cfg.configEnc.authentic
            \/ ~cfg.configEnc.plain.json

(* C28: a cycle of a job one of whose channel secrets does not decrypt, or  *)
(* decrypts to a blank value, sends no delivery request, and unless it is   *)
(* cancelled it ends by committing one fail row and fail_count + 1.         *)
C28_SecretFailureIsHard ==
  [][\A w \in Workers :
       (tx[w].job # NoJob /\ SecretFails(tx[w].row)) =>
         /\ pc[w] # "send" /\ pc'[w] # "send"
         /\ pc[w] \in {"compute", "inserted", "cancelled"} => run[w].sent = <<>>
         /\ (CycleEnds(w) /\ pc[w] # "cancelled") =>
              LET j == tx[w].job
              IN /\ pc[w] = "inserted"
                 /\ Len(hist'[j]) = Len(hist[j]) + 1
                 /\ LastStatus(hist'[j]) = "fail"
                 /\ jobs'[j].fail_count = snap[w].row.fail_count + 1
     ]_vars

(* C29: a worker holds at most one job between claim and finalize: it       *)
(* claims only from Idle, with no job in hand, and the job in its hand      *)
(* stays the same until its cycle ends, whatever else is due meanwhile.     *)
C29_OneJobPerWorker ==
  [][\A w \in Workers :
       /\ Claims(w) => (pc[w] = "idle" /\ pc'[w] = "claimed")
       /\ tx[w].job # NoJob => tx'[w].job \in {tx[w].job, NoJob}
       /\ tx[w].job = NoJob <=> pc[w] \in {"idle", "stopped"}
     ]_vars

(* a worker in a cycle while another job is due and nobody's *)
C29_Witness ==
  \E w \in Workers, j \in JobIds :
    /\ pc[w] = "inserted"
    /\ j # tx[w].job
    /\ Due(j) /\ Holders(j) = {}

(* C30: once the signal has been received the worker starts no new cycle    *)
(* and claims no job, a tick pending at the same moment notwithstanding:    *)
(* from its select it can only leave the loop.                              *)
C30_NoCycleAfterSignal ==
  [][\A w \in Workers :
       pc[w] \in {"signalled", "stopped"} =>
         /\ pc'[w] \in {"signalled", "stopped"}
         /\ tx'[w] = NoTx
     ]_vars

(* C31: every started cycle ends: a worker in a cycle is eventually idle    *)
(* again, its cycle committed or rolled back, even when the execution or    *)
(* delivery call of the cycle never returns.                                *)
C31_EveryCycleTerminates ==
  \A w \in Workers : InFlight(w) ~> pc[w] = "idle"

(* a cycle still at its execution and delivery step when its deadline is    *)
(* reached                                                                  *)
C31_Witness ==
  \E w \in Workers :
    /\ pc[w] = "claimed"
    /\ now = snap[w].at + CycleTimeout

(* the setting of w is a duration, and is below one second *)
Configured(w) == ParseDuration(TrimSpace(run[w].env)).ok
BelowOneSecond(w) == LessThan(ParseDuration(TrimSpace(run[w].env)).d, Second)

(* C32, as stated: parsePollInterval returns 10 s when the setting is       *)
(* unset, 1 s whenever the configured value is below 1 s, the configured    *)
(* value otherwise, and never less than 1 s.                                *)
C32_PollIntervalClamp ==
  \A w \in Workers :
    pc[w] = "started" =>
      /\ run[w].env = "" => run[w].interval = defaultPollInterval
      /\ (Configured(w) /\ BelowOneSecond(w)) => run[w].interval = Second
      /\ (Configured(w) /\ ~BelowOneSecond(w)) =>
           run[w].interval = ParseDuration(TrimSpace(run[w].env)).d
      /\ ~LessThan(run[w].interval, Second)

(* C32, amended: parsePollInterval returns 10 s when the setting is unset,  *)
(* blank, no duration, or a duration that is zero or negative; 1 s when the *)
(* configured value is positive and below 1 s; the configured value         *)
(* otherwise; and never less than 1 s.                                      *)
C32_PollIntervalDefaultOrClamp ==
  \A w \in Workers :
    pc[w] = "started" =>
      LET raw == TrimSpace(run[w].env)
          parsed == ParseDuration(raw)
      IN /\ (raw = "" \/ ~parsed.ok \/ ~LessThan(Duration(FALSE, 0, 0), parsed.d)) =>
              run[w].interval = defaultPollInterval
         /\ (raw # "" /\ parsed.ok /\ LessThan(Duration(FALSE, 0, 0), parsed.d) /\ LessThan(parsed.d, Second)) =>
              run[w].interval = Second
         /\ (raw # "" /\ parsed.ok /\ ~LessThan(parsed.d, Second)) =>
              run[w].interval = parsed.d
         /\ ~LessThan(run[w].interval, Second)

(* the worker started with a setting of 999 ms and polls every second *)
C32_Witness ==
  \E w \in Workers :
    /\ pc[w] = "started"
    /\ run[w].env = "999ms"
    /\ run[w].interval = Second

(* C33, as stated: locked_at, next_run_at and fail_count of a job change    *)
(* only when a worker commits its cycle of that job; the editor's update    *)
(* writes none of them.                                                     *)
C33_OnlyWorkerWrites ==
  [][\A j \in JobIds :
       (\/ jobs'[j].locked_at # jobs[j].locked_at
        \/ jobs'[j].next_run_at # jobs[j].next_run_at
        \/ jobs'[j].fail_count # jobs[j].fail_count)
         => \E w \in Workers : tx[w].job = j /\ CommitsCycle(w)
     ]_vars

(* C33, amended: locked_at and fail_count of a job change only when a       *)
(* worker commits its cycle of that job; next_run_at changes then, and      *)
(* when the editor updates the job, which computes it anew.                 *)
C33_OnlyWorkerWritesLockAndCount ==
  [][\A j \in JobIds :
       /\ (\/ jobs'[j].locked_at # jobs[j].locked_at
           \/ jobs'[j].fail_count # jobs[j].fail_count)
            => \E w \in Workers : tx[w].job = j /\ CommitsCycle(w)
       /\ jobs'[j].next_run_at # jobs[j].next_run_at
            => \/ \E w \in Workers : tx[w].job = j /\ CommitsCycle(w)
               \/ /\ Holders(j) = {}
                  /\ jobs'[j].next_run_at \in computeNextRunAt(now)
                  /\ updates' = updates /\ hist' = hist
     ]_vars

(* a job that failed before, whose next run no cycle has committed since    *)
(* the editor moved it                                                      *)
C33_Witness ==
  \E j \in JobIds :
    /\ updates[j] = 0
    /\ jobs[j].next_run_at > 0
    /\ jobs[j].fail_count > 0
    /\ jobs[j].locked_at # NullTime

(* C34: the history of a job only grows, by rows that are well-formed: a    *)
(* success row carries an output preview of at most 1000 characters and no  *)
(* error message, a fail row an error message of at most 500 characters and *)
(* no output preview.                                                       *)
C34_HistoryAppendOnlyWellFormed ==
  [][\A j \in JobIds :
       /\ Len(hist'[j]) >= Len(hist[j])
       /\ SubSeq(hist'[j], 1, Len(hist[j])) = hist[j]
       /\ \A i \in 1..Len(hist'[j]) :
            LET row == hist'[j][i]
            IN /\ row.status \in {"success", "fail"}
               /\ row.status = "success" =>
                    /\ row.output_preview.Valid
                    /\ Len(row.output_preview.V) <= 1000
                    /\ ~row.error_message.Valid
               /\ row.status = "fail" =>
                    /\ row.error_message.Valid
                    /\ Len(row.error_message.V) <= 500
                    /\ ~row.output_preview.Valid
     ]_vars

C36_NoCommittedLock ==
  /\ \A j \in JobIds : jobs[j].locked_at = NullTime
  /\ \A w \in Workers :
       InFlight(w) => /\ snap[w].row.locked_at = NullTime
                      /\ tx[w].row.locked_at = SomeTime(snap[w].at)

(* a worker holding the marker of its second cycle of a job, uncommitted *)
C36_Witness ==
  \E w \in Workers :
    /\ pc[w] = "inserted"
    /\ updates[tx[w].job] > 0
    /\ tx[w].row.locked_at = SomeTime(now)
    /\ jobs[tx[w].job].locked_at = NullTime

(* every text of the plan of w got a success response to its last request *)
Delivered(w) ==
  /\ run[w].plan # <<>>
  /\ \A k \in 1..Len(run[w].plan) :
       /\ SentFor(w, k) # <<>>
       /\ SuccessResponse(SentFor(w, k)[Len(SentFor(w, k))].resp)

(* C37: the schedule is computed when runPrompt and deliver have returned,  *)
(* and its error becomes the outcome of the cycle: whatever the two steps   *)
(* came to, the message delivered or an error of theirs at hand, the cycle  *)
(* of a job with a broken schedule records "schedule calc error" in a fail  *)
(* row and commits fail_count + 1 and next_run_at = now + 10 minutes.       *)
C37_ScheduleErrorReplacesOutcome ==
  [][\A w \in Workers :
       /\ (pc[w] # "compute" /\ pc'[w] = "compute") =>
            /\ pc[w] \in {"claimed", "runPrompt", "deliver", "send"}
            /\ run'[w].next = 0 /\ tx'[w].hist = <<>>
            /\ \/ run'[w].runErr # ""
               \/ /\ run'[w].plan # <<>>
                  /\ \A k \in 1..Len(run'[w].plan) :
                       \E i \in 1..Len(run'[w].sent) : run'[w].sent[i].k = k
       /\ (ScheduleBroken(snap[w].row) /\ pc[w] = "compute" /\ pc'[w] = "inserted") =>
            /\ run'[w].runErr = ErrScheduleCalc
            /\ run'[w].status = "fail"
            /\ run'[w].next = now + 10 * UnitsPerMinute
            /\ Len(tx'[w].hist) = 1
            /\ tx'[w].hist[1].status = "fail"
            /\ tx'[w].hist[1].error_message = SomeStr(ErrScheduleCalc)
            /\ run'[w].sent = run[w].sent
       /\ (ScheduleBroken(snap[w].row) /\ CommitsCycle(w)) =>
            LET j == tx[w].job
            IN /\ LastStatus(hist'[j]) = "fail"
               /\ IsScheduleError(hist'[j][Len(hist'[j])].error_message)
               /\ jobs'[j].fail_count = snap[w].row.fail_count + 1
               /\ jobs'[j].next_run_at = snap[w].at + 10 * UnitsPerMinute
     ]_vars

(* the message of a job with a broken schedule went out, and its cycle is   *)
(* about to commit a fail row                                               *)
C37_Witness ==
  \E w \in Workers :
    /\ pc[w] = "inserted"
    /\ ScheduleBroken(snap[w].row)
    /\ Delivered(w)
    /\ run[w].status = "fail"
    /\ tx[w].hist[1].error_message = SomeStr(ErrScheduleCalc)

(* C38: while a worker of the fleet runs, a job that is due does not stay   *)
(* due for ever: it is claimed and its cycle committed, whatever the cycles *)
(* of jobs due earlier come to.                                             *)
C38_NoStarvation ==
  \A j \in JobIds :
    Due(j) ~> (~Due(j) \/ \A w \in Workers : pc[w] = "stopped")

(* C39: no cycle sets enabled back to true and no step but a committed      *)
(* cycle changes fail_count, the editor's update included; so the first     *)
(* failed cycle of a job that was re-enabled at fail_count >= 10 disables   *)
(* it again, only a successful cycle brings fail_count to 0, and a cycle    *)
(* never leaves a job enabled with fail_count >= 10.                        *)
C39_ReenabledJobFailsOut ==
  [][\A j \in JobIds :
       /\ (~jobs[j].enabled /\ jobs'[j].enabled) =>
            (updates'[j] = updates[j] /\ Holders(j) = {})
       /\ updates'[j] = updates[j] => jobs'[j].fail_count = jobs[j].fail_count
       /\ updates'[j] = updates[j] + 1 =>
            /\ (LastStatus(hist'[j]) = "fail" /\ jobs[j].fail_count >= 10) =>
                 /\ ~jobs'[j].enabled
                 /\ jobs'[j].fail_count = jobs[j].fail_count + 1
            /\ jobs'[j].fail_count = 0 <=> LastStatus(hist'[j]) = "success"
            /\ jobs'[j].enabled => jobs'[j].fail_count < 10
     ]_vars

(* a job disabled at its 10th failure was enabled in the editor, failed     *)
(* once more and is disabled again                                          *)
C39_Witness ==
  \E j \in JobIds :
    /\ jobs[j].fail_count = 11
    /\ ~jobs[j].enabled
    /\ Len(hist[j]) = 2 /\ TrailingFails(hist[j]) = 2

(* C40: the cycle of a job whose channel type is none of discord, telegram  *)
(* and webhook sends no request, to the bot API or elsewhere, and commits   *)
(* a fail row.                                                              *)
C40_ClosedChannelSet ==
  [][\A w \in Workers :
       (tx[w].job # NoJob
          /\ tx[w].row.channel_type \notin {"discord", "telegram", "webhook"}) =>
         /\ pc'[w] # "send"
         /\ CommitsCycle(w) =>
              /\ run[w].sent = <<>>
              /\ LastStatus(hist'[tx[w].job]) = "fail"
     ]_vars

====
